---- MODULE Spec2Model ----
(***************************************************************************)
(* Model of the pool allocators of fabianbs96/pool_allocator:             *)
(*   - mem::SubtypeAllocatorDriver (getId / allocate / deallocate /       *)
(*     reserve) over a byte-addressed heap,                                *)
(*   - mem::refc, refc::singleton and mem::RefcFactory on top of it.      *)
(* Addresses and size_t values are naturals below SizeTMod; a pointer is  *)
(* the address it holds, 0 is nullptr.  Class IDs are 0-based as in the   *)
(* code, so entry Id of a std::vector is element Id + 1 of a sequence.    *)
(***************************************************************************)
EXTENDS Integers, Sequences, FiniteSets, TLC

-----------------------------------------------------------------------------
(* Bounds of the model *)

\* number of values of size_t (the code has 2^64): arithmetic wraps here
SizeTMod == 65536
\* template parameter AllocationBlockSize (cells per default slab)
AllocationBlockSize == 2
\* slabs the system allocator hands out before it is left alone
MaxBlocks == 2
\* largest NumNewObjects passed to reserve
MaxReserve == 2
\* cells the caller holds at once
MaxHeld == 2

\* handles (refc objects) that exist at once
MaxHandles == 2
\* cells the factory is asked for before it is left alone
MaxCells == 1
\* a cell is not shared further once its counter is this high
MaxCount == 3
\* PoolAllocator objects of the program
MaxPools == 2
\* template parameter BlockSize of PoolAllocator (cells per later slab)
PoolBlockSize == 2
\* largest first-slab capacity a PoolAllocator is constructed with
MaxFirst == 2
\* cells and arrays of PoolAllocators the caller holds at once
MaxPHeld == 3
\* cells and arrays of a wrapper the caller holds at once
MaxWHeld == 1
\* largest n of allocate(n)
MaxN == 2
\* arrays the system allocator hands out before it is left alone
MaxArrays == 1
\* SubtypeAllocator objects the program has
MaxWraps == 2

(* Program constants *)

\* sizeof(detail::refc_base::counter): Ctr, Id, Del
SizeofCounter == 24
\* address of the factory's Driver member, the Del of its cells
DriverAddr == 8
\* address of the singleton in static storage
SingletonAddr == 32

\* sizeof(void *)
WordSize == 8
\* sizeof(Block): the BlockBase::next pointer, data[0] adds nothing
SizeofBlock == 8
\* first address the system allocator may return
HeapBase == 72

-----------------------------------------------------------------------------
(* Small helpers *)

Max(a, b) == IF a >= b THEN a ELSE b

\* conversion of an integer to size_t
ToSizeT(x) == x % SizeTMod

\* ~x on a size_t
BitNot(x) == (SizeTMod - 1) - x

\* x & ~7
ClearLow3(x) == x - (x % 8)

AlignUp(x, a) == ((x + a - 1) \div a) * a

Range(s) == {s[i] : i \in DOMAIN s}

\* detail::SubtypeAllocatorDriverBase::InvalidId = size_t(-1)
InvalidId == ToSizeT(-1)

-----------------------------------------------------------------------------
(* The types the driver is asked about: name |-> sizeof, alignof *)

Types == {"i32", "p12", "p16", "q16", "x16"}

\* offsetof(refc<T>::one_allocation, Data), sizeof and alignof of the cell type
OneAllocOffset(size, align) == AlignUp(SizeofCounter, align)

OneAllocAlign(size, align) == Max(WordSize, align)

OneAllocSize(size, align) ==
  AlignUp(OneAllocOffset(size, align) + size, OneAllocAlign(size, align))

\* the factory's type list Ts...
Ts == <<"int", "long long", "DoubleWrapper">>

\* refc<T>::one_allocation
CellType(T) ==
  CASE T = "int" -> "refc<int>::one_allocation"
    [] T = "long long" -> "refc<long long>::one_allocation"
    [] T = "DoubleWrapper" -> "refc<DoubleWrapper>::one_allocation"

SizeOf(t) ==
  CASE t = "i32" -> 4
    [] t = "int" -> 4
    [] t = "long long" -> 8
    [] t = "DoubleWrapper" -> 8
    [] t = "refc<int>::one_allocation" -> OneAllocSize(4, 4)
    [] t = "refc<long long>::one_allocation" -> OneAllocSize(8, 8)
    [] t = "refc<DoubleWrapper>::one_allocation" -> OneAllocSize(8, 8)
    [] t = "p12" -> 12
    [] t = "p16" -> 16
    [] t = "q16" -> 16
    [] t = "x16" -> 16

AlignOf(t) ==
  CASE t = "i32" -> 4
    [] t = "int" -> 4
    [] t = "long long" -> 8
    [] t = "DoubleWrapper" -> 8
    [] t = "refc<int>::one_allocation" -> OneAllocAlign(4, 4)
    [] t = "refc<long long>::one_allocation" -> OneAllocAlign(8, 8)
    [] t = "refc<DoubleWrapper>::one_allocation" -> OneAllocAlign(8, 8)
    [] t = "p12" -> 4
    [] t = "p16" -> 4
    [] t = "q16" -> 8
    [] t = "x16" -> 16

\* the types the caller allocates cells for
AllocTypes == {"i32", "x16"}

\* SubtypeAllocatorDriver::normalizedSize<T>()
normalizedSize(t) == ClearLow3(Max(WordSize, SizeOf(t) + 7))

-----------------------------------------------------------------------------
VARIABLES
  typeInfos,   \* SubtypeAllocatorDriverBase::typeInfos
  configs,     \* SubtypeAllocatorDriverBase::configs
  blocks,      \* the system allocator: slab base |-> [next, align, bytes, cells, by]
  brk,         \* the system allocator: lowest address never handed out
  mem,         \* words written through pointers: address |-> value
  held,        \* the caller: cells it holds, [ptr, id]
  idOf,        \* the caller: type |-> the ID getId<T>() returned first
  resv,        \* per ID: allocations still covered by a reserve
  mon,         \* monitor following one allocate/deallocate/allocate round trip
  factoryIds,  \* RefcFactory::Ids
  handles,     \* the refc objects that exist: slot |-> [T, Data]
  born,        \* cells factory.create constructed a payload in
  life,        \* cell |-> payload destructor runs and deallocate calls
  sgl,         \* the singleton: "none", "alive" or "reclaimed"
  lastOp,      \* the refc_from_this call just made, if it was the last operation
  assertFailed, \* an assert of refc.hpp did not hold (the build went on)
  destroyed,   \* ~SubtypeAllocatorDriver() has run on the driver
  movedFrom,   \* the driver this one was move-constructed from, if any
  pools,       \* the PoolAllocator objects: [state, pool, freeList, currBlockSize, index]
  wrapperId,   \* SubtypeAllocatorBase::Id of a SubtypeAllocator over the driver
  pheld,       \* what the caller holds of a PoolAllocator or a wrapper: [ptr, n, of]
  capLog,      \* the initialCapacities a factory was built with, and its reserve calls
  wraps        \* SubtypeAllocator objects: slot |-> [state, T, Driver, Id]

driverVars == <<typeInfos, configs, blocks, brk, mem>>
callerVars == <<held, idOf, resv, mon>>
refcVars == <<factoryIds, handles, born, life, sgl, lastOp, assertFailed>>
extVars == <<destroyed, movedFrom, pools, wrapperId, pheld, capLog, wraps>>
vars == <<typeInfos, configs, blocks, brk, mem, held, idOf, resv, mon,
          factoryIds, handles, born, life, sgl, lastOp, assertFailed,
          destroyed, movedFrom, pools, wrapperId, pheld, capLog, wraps>>

\* the driver and the heap it works on, as one value the operations transform
St == [typeInfos |-> typeInfos, configs |-> configs, blocks |-> blocks,
       brk |-> brk, mem |-> mem]

SetSt(s) ==
  /\ typeInfos' = s.typeInfos
  /\ configs' = s.configs
  /\ blocks' = s.blocks
  /\ brk' = s.brk
  /\ mem' = s.mem

\* the state s with the memory m, as the state at the start
SetStNow(s, m) ==
  /\ typeInfos = s.typeInfos
  /\ configs = s.configs
  /\ blocks = s.blocks
  /\ brk = s.brk
  /\ mem = m

NoOp == [op |-> "none", src |-> 0, dst |-> 0]

NoHandle == [T |-> "none", Data |-> 0]

Slots == 1 .. MaxHandles

\* a PoolAllocator object that was not constructed yet; cap, got and freed
\* keep the capacity it was constructed with, the cells its allocate(1)
\* returned as long as none was deallocated, and whether one was
NoPool == [state |-> "none", pool |-> 0, freeList |-> 0, currBlockSize |-> 0,
           index |-> 0, cap |-> 0, got |-> <<>>, freed |-> FALSE]

\* a SubtypeAllocator object that was not constructed yet
NoWrap == [state |-> "none", T |-> "none", Driver |-> 0, Id |-> 0, by |-> "none",
           via |-> "none"]

\* no second driver, no PoolAllocator, a wrapper with its ID not resolved, no
\* factory built from capacities, no further wrapper
InitExt ==
  /\ destroyed = FALSE
  /\ movedFrom = <<>>
  /\ pools = [i \in 1 .. MaxPools |-> NoPool]
  /\ wrapperId = ToSizeT(-1)
  /\ pheld = {}
  /\ capLog = [caps |-> <<>>, calls |-> <<>>]
  /\ wraps = [i \in 1 .. MaxWraps |-> NoWrap]

MonIdle == [stage |-> "idle", id |-> 0, freed |-> <<>>, again |-> <<>>,
            slab |-> FALSE]

-----------------------------------------------------------------------------
(* Memory and the system allocator *)

\* the word at a is no longer known to the model (it is its owner's to use)
Forget(m, a) == [x \in (DOMAIN m) \ {a} |-> m[x]]

\* *a = v
Write(m, a, v) == [x \in (DOMAIN m) \cup {a} |-> IF x = a THEN v ELSE m[x]]

\* ::new (std::align_val_t{ObjectAlignment}) char[numBytes]: the first address
\* that is a multiple of the alignment above everything handed out so far
SysAlloc(s, ObjectAlignment) == AlignUp(s.brk, ObjectAlignment)

\* Block::create; cells and by are kept with the slab for the record, with
\* how often it was released and the alignment named at the release
Block_create(s, nxt, ObjectSize, ObjectAlignment, BlockSize, by) ==
  LET chunkSize == Max(ObjectSize, ObjectAlignment)
      offset    == Max(SizeofBlock, ObjectAlignment)
      numBytes  == offset + BlockSize * chunkSize
      ret       == SysAlloc(s, ObjectAlignment)
  IN  [st   |-> [s EXCEPT !.blocks = Write(@, ret, [align |-> ObjectAlignment,
                                                    bytes |-> numBytes,
                                                    cells |-> BlockSize,
                                                    by    |-> by,
                                                    released |-> 0,
                                                    relAlign |-> 0]),
                          !.brk    = ret + numBytes,
                          !.mem    = Write(@, ret, nxt)],
       blck |-> ret,
       pos  |-> offset - SizeofBlock]

\* &blck->data[pos]
DataAt(blck, pos) == blck + SizeofBlock + pos

-----------------------------------------------------------------------------
(* SubtypeAllocatorDriver *)

TypeInfo(ObjectSize, ObjectAlignment) ==
  [objectSize |-> ObjectSize, objectAlignment |-> ObjectAlignment]

Config(Root, FreeList, Pos, Last) ==
  [root |-> Root, freeList |-> FreeList, pos |-> Pos, last |-> Last]

getNumIds(s) == Len(s.typeInfos)

\* the same loop with the comparison against the wanted alignment made strict
RECURSIVE getIdScanStrict(_, _, _, _, _, _)
getIdScanStrict(ti, i, alignment, id, NormalizedSize, ObjectAlignment) ==
  IF i >= Len(ti) THEN id
  ELSE LET osize  == ti[i + 1].objectSize
           oalign == ti[i + 1].objectAlignment
           take   == osize = NormalizedSize /\ oalign > ObjectAlignment
                     /\ oalign < alignment
       IN  getIdScanStrict(ti, i + 1,
                           IF take THEN oalign ELSE alignment,
                           IF take THEN i ELSE id,
                           NormalizedSize, ObjectAlignment)

\* the same loop keeping the loosest instead of the tightest fit
RECURSIVE getIdScanLoosest(_, _, _, _, _, _)
getIdScanLoosest(ti, i, alignment, id, NormalizedSize, ObjectAlignment) ==
  IF i >= Len(ti) THEN id
  ELSE LET osize  == ti[i + 1].objectSize
           oalign == ti[i + 1].objectAlignment
           take   == osize = NormalizedSize /\ oalign >= ObjectAlignment
                     /\ (id = BitNot(0) \/ oalign > alignment)
       IN  getIdScanLoosest(ti, i + 1,
                            IF take THEN oalign ELSE alignment,
                            IF take THEN i ELSE id,
                            NormalizedSize, ObjectAlignment)

\* the same loop keeping the last entry that fits
RECURSIVE getIdScanLast(_, _, _, _, _, _)
getIdScanLast(ti, i, alignment, id, NormalizedSize, ObjectAlignment) ==
  IF i >= Len(ti) THEN id
  ELSE LET osize  == ti[i + 1].objectSize
           oalign == ti[i + 1].objectAlignment
           take   == osize = NormalizedSize /\ oalign >= ObjectAlignment
       IN  getIdScanLast(ti, i + 1,
                         IF take THEN oalign ELSE alignment,
                         IF take THEN i ELSE id,
                         NormalizedSize, ObjectAlignment)

\* the for loop of getId over ti[i .. size-1]; yields the final id
RECURSIVE getIdScan(_, _, _, _, _, _)
getIdScan(ti, i, alignment, id, NormalizedSize, ObjectAlignment) ==
  IF i >= Len(ti) THEN id
  ELSE LET osize  == ti[i + 1].objectSize
           oalign == ti[i + 1].objectAlignment
           take   == osize = NormalizedSize /\ oalign >= ObjectAlignment
                     /\ oalign < alignment
       IN  getIdScan(ti, i + 1,
                     IF take THEN oalign ELSE alignment,
                     IF take THEN i ELSE id,
                     NormalizedSize, ObjectAlignment)

\* the lambda of getId: the ID found, or ~0 for std::nullopt
getIdFind(ti, NormalizedSize, ObjectAlignment) ==
  IF Len(ti) = 0 THEN BitNot(0)
  ELSE getIdScan(ti, 0, BitNot(0), BitNot(0), NormalizedSize, ObjectAlignment)

\* SubtypeAllocatorDriver::getId<T>()
getId(s, t) ==
  LET ObjectAlignment == AlignOf(t)
      NormalizedSize  == normalizedSize(t)
      id              == getIdFind(s.typeInfos, NormalizedSize, ObjectAlignment)
  IN  IF BitNot(id) # 0
      THEN [st |-> s, id |-> id, appended |-> FALSE]
      ELSE [st |-> [s EXCEPT
                      !.typeInfos = Append(@, TypeInfo(NormalizedSize, ObjectAlignment)),
                      !.configs   = Append(@, Config(0, 0, 0, 0))],
            id |-> Len(s.typeInfos),
            appended |-> TRUE]

\* SubtypeAllocatorDriverBase::deallocate with the push made at the far end of
\* the list instead of its head
RECURSIVE lastLink(_, _)
lastLink(m, p) == IF m[p] = 0 THEN p ELSE lastLink(m, m[p])

deallocateAtTail(s, Obj, Id) ==
  LET freeList == s.configs[Id + 1].freeList
  IN  IF freeList = 0
      THEN [s EXCEPT !.mem = Write(@, Obj, 0), !.configs[Id + 1].freeList = Obj]
      ELSE [s EXCEPT !.mem = Write(Write(@, Obj, 0), lastLink(s.mem, freeList), Obj)]

\* deallocate that loses the cell
deallocateLost(s, Obj, Id) == s

\* deallocate that makes the cell the head without linking the old head
deallocateNoLink(s, Obj, Id) == [s EXCEPT !.configs[Id + 1].freeList = Obj]

\* SubtypeAllocatorDriverBase::deallocate
deallocate(s, Obj, Id) ==
  LET freeList == s.configs[Id + 1].freeList
      nwFL     == Obj
  IN  [s EXCEPT !.mem = Write(@, nwFL, freeList),
                !.configs[Id + 1].freeList = nwFL]

\* Block::create as called by allocate, with the header size taken as the
\* offset of the first cell whatever the alignment
allocCreateNoAlign(s, nxt, ObjectSize, ObjectAlignment) ==
  LET c == Block_create(s, nxt, ObjectSize, ObjectAlignment, AllocationBlockSize,
                        "allocate")
  IN  [c EXCEPT !.pos = 0]

\* Block::create as called by allocate, for one cell less
allocCreateShort(s, nxt, ObjectSize, ObjectAlignment) ==
  Block_create(s, nxt, ObjectSize, ObjectAlignment, AllocationBlockSize - 1,
               "allocate")

\* Block::create as called by allocate, with no slab behind the new one
allocCreateUnlinked(s, nxt, ObjectSize, ObjectAlignment) ==
  Block_create(s, 0, ObjectSize, ObjectAlignment, AllocationBlockSize, "allocate")

\* Block::create(blck, osize, oalign) as called by allocate
allocCreate(s, nxt, ObjectSize, ObjectAlignment) ==
  Block_create(s, nxt, ObjectSize, ObjectAlignment, AllocationBlockSize,
               "allocate")

\* the test of allocate for a used-up slab, taking a slab with exactly one
\* cell left for used up
allocGrowOffByOne(pos, osize, last) == pos + osize >= last

\* if (pos + osize > last): the current slab has no cell left
allocGrow(pos, osize, last) == pos + osize > last

\* SubtypeAllocatorDriver::allocate
allocate(s, Id) ==
  LET config == s.configs[Id + 1]
  IN  IF config.freeList # 0
      THEN [st       |-> [s EXCEPT !.configs[Id + 1].freeList = s.mem[config.freeList]],
            ret      |-> config.freeList,
            created  |-> FALSE,
            fromFree |-> TRUE]
      ELSE LET osize  == s.typeInfos[Id + 1].objectSize
               oalign == s.typeInfos[Id + 1].objectAlignment
               last   == config.last
               grow   == allocGrow(config.pos, osize, last)
               c      == allocCreate(s, config.root, osize, oalign)
               s1     == IF grow THEN c.st ELSE s
               blck   == IF grow THEN c.blck ELSE config.root
               pos    == IF grow THEN c.pos ELSE config.pos
               last1  == IF grow THEN AllocationBlockSize * osize + pos ELSE last
           IN  [st       |-> [s1 EXCEPT !.configs[Id + 1] =
                                          Config(blck, config.freeList, pos + osize, last1)],
                ret      |-> DataAt(blck, pos),
                created  |-> grow,
                fromFree |-> FALSE]

\* the same loop stopping before the cell at end
RECURSIVE reservePushShort(_, _, _, _, _)
reservePushShort(m, fl, it, end, osize) ==
  IF it > end
  THEN reservePushShort(Write(m, it, fl), it, it - osize, end, osize)
  ELSE [mem |-> m, fl |-> fl]

\* the same loop leaving the cells where they are
reservePushNothing(m, fl, it, end, osize) == [mem |-> m, fl |-> fl]

\* the for loop of reserve: it runs from &rt->data[last - osize] down to end
RECURSIVE reservePush(_, _, _, _, _)
reservePush(m, fl, it, end, osize) ==
  IF it >= end
  THEN reservePush(Write(m, it, fl), it, it - osize, end, osize)
  ELSE [mem |-> m, fl |-> fl]

\* SubtypeAllocatorDriver::reserve
reserve(s, Id, NumNewObjects) ==
  IF NumNewObjects = 0 THEN [st |-> s, created |-> FALSE]
  ELSE
    LET config == s.configs[Id + 1]
        pos    == config.pos
        last   == config.last
        osize  == s.typeInfos[Id + 1].objectSize
        oalign == s.typeInfos[Id + 1].objectAlignment
        rem    == (last - pos) \div osize
    IN  IF rem > NumNewObjects THEN [st |-> s, created |-> FALSE]
        ELSE
          LET n1 == IF rem # 0 THEN NumNewObjects - rem ELSE NumNewObjects
              rt == config.root
              pu == IF rem # 0
                    THEN reservePush(s.mem, config.freeList,
                                     DataAt(rt, last - osize), DataAt(rt, pos), osize)
                    ELSE [mem |-> s.mem, fl |-> config.freeList]
              s1 == [s EXCEPT !.mem = pu.mem, !.configs[Id + 1].freeList = pu.fl]
              c  == Block_create(s1, rt, osize, oalign, n1, "reserve")
          IN  [st      |-> [c.st EXCEPT !.configs[Id + 1] =
                                         Config(c.blck, pu.fl, c.pos, c.pos + n1 * osize)],
               created |-> TRUE]

-----------------------------------------------------------------------------
(* The round-trip monitor.  It records the cells deallocated in a row under
   one ID (freed, in the order of the calls) and then the cells the
   allocate calls that follow return under that ID (again), until as many
   came back as were freed; any other call makes it start over. *)

MonAlloc(m, Id, p, created) ==
  IF m.stage \in {"free", "again"} /\ m.id = Id
  THEN [m EXCEPT !.again = Append(@, p),
                 !.slab  = @ \/ created,
                 !.stage = IF Len(m.again) + 1 = Len(m.freed) THEN "done" ELSE "again"]
  ELSE MonIdle

MonDealloc(m, Id, p) ==
  IF m.stage = "free" /\ m.id = Id
  THEN [m EXCEPT !.freed = Append(@, p)]
  ELSE [MonIdle EXCEPT !.stage = "free", !.id = Id, !.freed = <<p>>]

-----------------------------------------------------------------------------
(* The driver and its caller *)

Ids == 0 .. (Len(typeInfos) - 1)

NumBlocks == Cardinality(DOMAIN blocks)

EmptyFn == [x \in {} |-> 0]

Init ==
  /\ typeInfos = <<>>
  /\ configs = <<>>
  /\ blocks = EmptyFn
  /\ brk = HeapBase
  /\ mem = EmptyFn
  /\ held = {}
  /\ idOf = [t \in Types |-> InvalidId]
  /\ resv = <<>>
  /\ mon = MonIdle
  /\ factoryIds = <<>>
  /\ handles = [i \in Slots |-> NoHandle]
  /\ born = {}
  /\ life = EmptyFn
  /\ sgl = "none"
  /\ lastOp = NoOp
  /\ assertFailed = FALSE
  /\ InitExt

\* Id = driver.getId<T>(); a caller that remembers keeps the first answer
GetId(t, remember) ==
  LET r == getId(St, t)
  IN  /\ SetSt(r.st)
      /\ idOf' = IF remember /\ idOf[t] = InvalidId
                 THEN [idOf EXCEPT ![t] = r.id] ELSE idOf
      /\ resv' = IF r.appended THEN Append(resv, 0) ELSE resv
      /\ mon' = MonIdle
      /\ UNCHANGED <<extVars, held, refcVars>>

\* p = driver.allocate(Id); the cell's bytes are the caller's from here on
Allocate(Id, watch) ==
  LET r == allocate(St, Id)
  IN  /\ Cardinality(held) < MaxHeld
      /\ r.created => NumBlocks < MaxBlocks
      /\ SetSt([r.st EXCEPT !.mem = Forget(@, r.ret)])
      /\ held' = held \cup {[ptr |-> r.ret, id |-> Id]}
      /\ resv' = [resv EXCEPT ![Id + 1] = IF @ > 0 THEN @ - 1 ELSE 0]
      /\ mon' = IF watch THEN MonAlloc(mon, Id, r.ret, r.created) ELSE mon
      /\ UNCHANGED <<extVars, idOf, refcVars>>

\* driver.deallocate(p, Id) of a cell the caller holds, under the ID it was
\* allocated with
Deallocate(h, watch) ==
  /\ SetSt(deallocate(St, h.ptr, h.id))
  /\ held' = held \ {h}
  /\ mon' = IF watch THEN MonDealloc(mon, h.id, h.ptr) ELSE mon
  /\ UNCHANGED <<extVars, idOf, resv, refcVars>>

\* driver.reserve(Id, NumNewObjects); with track the allocations it covers
\* are counted
Reserve(Id, NumNewObjects, track) ==
  LET r == reserve(St, Id, NumNewObjects)
  IN  /\ r.created => NumBlocks < MaxBlocks
      /\ SetSt(r.st)
      /\ resv' = IF track THEN [resv EXCEPT ![Id + 1] = Max(@, NumNewObjects)]
                 ELSE resv
      /\ mon' = MonIdle
      /\ UNCHANGED <<extVars, held, idOf, refcVars>>

\* the driver with a caller that counts what reserve covers
Next ==
  \/ \E t \in AllocTypes : GetId(t, FALSE)
  \/ \E Id \in Ids : Allocate(Id, FALSE)
  \/ \E h \in held : Deallocate(h, FALSE)
  \/ \E Id \in Ids, n \in 0 .. MaxReserve : Reserve(Id, n, TRUE)

Spec == Init /\ [][Next]_vars

\* the driver with the round-trip monitor switched on
NextRT ==
  \/ \E t \in AllocTypes : GetId(t, FALSE)
  \/ \E Id \in Ids : Allocate(Id, TRUE)
  \/ \E h \in held : Deallocate(h, TRUE)
  \/ \E Id \in Ids : Reserve(Id, MaxReserve, FALSE)

SpecRT == Init /\ [][NextRT]_vars

\* getId alone, with a caller that remembers the IDs it was given
NextIds == \E t \in Types : GetId(t, TRUE)

SpecIds == Init /\ [][NextIds]_vars

-----------------------------------------------------------------------------
(* Claims about the driver *)

\* the slab a cell address lies in
InBlock(p, b) == b < p /\ p < b + blocks[b].bytes

\* C1: when cells d1 .. dk are deallocated in a row under an ID (the k cells
\* of k earlier allocations, in any order), the allocate calls that follow
\* under that ID return dk, ..., d1 in this order - last freed, first
\* reissued - and none of the k calls creates a slab.
C1_RoundTrip ==
  mon.stage \in {"again", "done"} =>
    /\ ~mon.slab
    /\ \A j \in 1 .. Len(mon.again) :
         mon.again[j] = mon.freed[Len(mon.freed) - j + 1]

\* two cells freed lower address first have both come back
C1_Witness ==
  /\ mon.stage = "done"
  /\ Len(mon.freed) = 2
  /\ mon.freed[1] < mon.freed[2]

\* C3: an allocate(Id) that is among the first n after reserve(Id, n) creates
\* no slab, whatever deallocate calls came in between.
C3_ReserveCovers ==
  [][\A Id \in Ids :
       (resv[Id + 1] > 0 /\ \E h \in held' \ held : h.id = Id)
         => DOMAIN blocks' = DOMAIN blocks]_vars

\* a cell issued from a slab that reserve created, with more allocations
\* still covered
C3_Witness ==
  \E h \in held, b \in DOMAIN blocks :
    /\ blocks[b].by = "reserve"
    /\ InBlock(h.ptr, b)
    /\ resv[h.id + 1] > 0

\* C4: every pointer allocate(id) returned is a multiple of the alignment
\* recorded for id, and of alignof(T) for every type T that getId maps to id.
C4_Aligned ==
  \A h \in held :
    /\ h.ptr % typeInfos[h.id + 1].objectAlignment = 0
    /\ \A t \in Types :
         (getId(St, t).id = h.id /\ ~getId(St, t).appended)
           => h.ptr % AlignOf(t) = 0

\* a 16-aligned cell issued from a default slab and one from a slab made by
\* reserve
C4_Witness ==
  \E h1 \in held, h2 \in held, b1 \in DOMAIN blocks, b2 \in DOMAIN blocks :
    /\ typeInfos[h1.id + 1].objectAlignment = 16
    /\ typeInfos[h2.id + 1].objectAlignment = 16
    /\ blocks[b1].by = "allocate" /\ InBlock(h1.ptr, b1)
    /\ blocks[b2].by = "reserve" /\ InBlock(h2.ptr, b2)

SameShape(A, B) ==
  normalizedSize(A) = normalizedSize(B) /\ AlignOf(A) = AlignOf(B)

\* C5: two different types of the same normalized size and alignment get the
\* same ID, in either order and whatever was classified in between, and the
\* later call appends no pool.
C5_FootprintSharing ==
  \A A \in Types, B \in Types :
    (A # B /\ SameShape(A, B) /\ idOf[A] # InvalidId) =>
      /\ getId(St, B).id = idOf[A]
      /\ ~getId(St, B).appended
      /\ (idOf[B] # InvalidId => idOf[B] = idOf[A])

\* both types of one shape were classified, and a pool of another alignment
\* exists beside theirs
C5_Witness ==
  /\ idOf["p12"] # InvalidId
  /\ idOf["p16"] = idOf["p12"]
  /\ idOf["x16"] # InvalidId
  /\ idOf["x16"] # idOf["p12"]

\* C6: once getId<T>() returned an ID, every later getId<T>() returns that
\* ID and appends nothing, whatever pools were appended meanwhile.
C6_IdStable ==
  \A t \in Types :
    idOf[t] # InvalidId =>
      /\ getId(St, t).id = idOf[t]
      /\ ~getId(St, t).appended

\* a type was classified and pools of its size were appended after its own
C6_Witness ==
  \E t \in Types :
    /\ idOf[t] # InvalidId
    /\ idOf[t] + 1 < Len(typeInfos)
    /\ typeInfos[Len(typeInfos)].objectSize = normalizedSize(t)
    /\ typeInfos[Len(typeInfos)].objectAlignment > AlignOf(t)

-----------------------------------------------------------------------------
(* mem::refc, refc::singleton, enable_refc_from_this and mem::RefcFactory *)

\* refc::getEmptyKey / getTombstoneKey: (one_allocation *)-1 and -2
EmptyKey == ToSizeT(-1)

TombstoneKey == ToSizeT(-2)

\* the fields of a counter at address d
CtrAt(d) == d

IdAt(d) == d + WordSize

DelAt(d) == d + 2 * WordSize

\* new (Ctr) counter(Ctr, Id, Del)
counter_ctor(m, d, Ctr, Id, Del) ==
  Write(Write(Write(m, CtrAt(d), Ctr), IdAt(d), Id), DelAt(d), Del)

\* refc::operator bool: size_t(Data + 2) < 3, where Data is a counter *, so
\* that + 2 adds 2 * sizeof(counter) bytes
operator_bool(Data) == ToSizeT(Data + 2 * SizeofCounter) < 3

\* refc::operator==(std::nullptr_t): return Data, converted to bool
operator_eq_null(Data) == Data # 0

\* operator== comparing the words the two pointers lie in
operator_eq_word(Data, OtherData) == ClearLow3(Data) = ClearLow3(OtherData)

\* refc::operator==(const refc<U> &Other)
operator_eq(Data, OtherData) == Data = OtherData

\* refc::get(): the address of one_allocation::Data
get(Data, T) == Data + OneAllocOffset(SizeOf(T), AlignOf(T))

\* refc(one_allocation *, std::true_type) with the counter stepped down
refc_increase_down(m, Data) ==
  IF Data # 0 THEN Write(m, CtrAt(Data), ToSizeT(m[CtrAt(Data)] - 1)) ELSE m

\* refc(one_allocation *Data, std::true_type increase_counter)
refc_increase(m, Data) ==
  IF Data # 0 THEN Write(m, CtrAt(Data), ToSizeT(m[CtrAt(Data)] + 1)) ELSE m

\* refc(const refc &Other): the memory after it and whether its assert held
refc_copy(m, OtherData) ==
  IF OtherData # 0
  THEN [mem |-> Write(m, CtrAt(OtherData), ToSizeT(m[CtrAt(OtherData)] + 1)),
        assertOk |-> m[DelAt(OtherData)] # 0]
  ELSE [mem |-> m, assertOk |-> TRUE]

\* refc::refc_from_this(T *Ptr): the Data of the handle it returns
refc_from_this(Ptr, T) ==
  IF Ptr = 0 THEN 0 ELSE Ptr - OneAllocOffset(SizeOf(T), AlignOf(T))

\* one more run of the payload destructor / one more deallocate of cell d
Bump(lf, d, field) ==
  IF d \in DOMAIN lf THEN [lf EXCEPT ![d][field] = @ + 1] ELSE lf

\* a destructor that hands the cell back whatever its counter says
refc_dtorEager(s, lf, Data) ==
  IF Data \in {0, EmptyKey, TombstoneKey} \/ s.mem[DelAt(Data)] = 0
  THEN [st |-> s, life |-> lf]
  ELSE [st   |-> deallocate(s, Data, s.mem[IdAt(Data)]),
        life |-> Bump(Bump(lf, Data, "dtor"), Data, "dealloc")]

\* refc::~refc()
refc_dtor(s, lf, Data) ==
  IF ~operator_bool(Data) THEN [st |-> s, life |-> lf]
  ELSE
    LET dat         == Data
        oldUseCount == s.mem[CtrAt(dat)]
        s1          == [s EXCEPT !.mem = Write(@, CtrAt(dat), ToSizeT(oldUseCount - 1))]
    IN  IF oldUseCount = 1 /\ s.mem[DelAt(dat)] # 0
        THEN [st   |-> deallocate(s1, dat, s.mem[IdAt(dat)]),
              life |-> Bump(Bump(lf, dat, "dtor"), dat, "dealloc")]
        ELSE [st |-> s1, life |-> lf]

\* tuple_index_v<U, Ts...>, 0-based
tuple_index(U) == (CHOOSE i \in DOMAIN Ts : Ts[i] = U) - 1

\* RefcFactory::initializeIds: getId for the cell type of Ts[i], Ts[i+1], ...
RECURSIVE initializeIds(_, _, _)
initializeIds(s, i, ids) ==
  IF i > Len(Ts) THEN [st |-> s, ids |-> ids]
  ELSE LET r == getId(s, CellType(Ts[i]))
       IN  initializeIds(r.st, i + 1, Append(ids, r.id))

\* the types create is called for, and the one that has refc_from_this
CreateTypes == {"int", "DoubleWrapper"}

EnablesRefcFromThis(T) == T = "DoubleWrapper"

\* the handles whose Data is the cell d
HandlesOf(d) == {i \in Slots : handles[i] # NoHandle /\ handles[i].Data = d}

\* a new handle takes the first slot that holds none
FirstFree(dst) ==
  /\ handles[dst] = NoHandle
  /\ \A i \in Slots : i < dst => handles[i] # NoHandle

NewLife == [dtor |-> 0, dealloc |-> 0]

\* RefcFactory::RefcFactory() has run, and the constructor of a
\* static refc<int>::singleton
InitRefc ==
  LET f == initializeIds([typeInfos |-> <<>>, configs |-> <<>>, blocks |-> EmptyFn,
                          brk |-> HeapBase, mem |-> EmptyFn], 1, <<>>)
  IN  /\ SetStNow(f.st, counter_ctor(f.st.mem, SingletonAddr, 1, InvalidId, 0))
      /\ factoryIds = f.ids
      /\ held = {}
      /\ idOf = [t \in Types |-> InvalidId]
      /\ resv = [i \in 1 .. Len(f.st.typeInfos) |-> 0]
      /\ mon = MonIdle
      /\ handles = [i \in Slots |-> NoHandle]
      /\ born = {}
      /\ life = (SingletonAddr :> NewLife)
      /\ sgl = "alive"
      /\ lastOp = NoOp
      /\ assertFailed = FALSE
      /\ InitExt

\* h = Factory.create<U>(args...); the payload constructor may throw, and
\* with fresh a call that throws may take a cell beyond the MaxCells
Create(U, dst, throws, fresh) ==
  LET id  == factoryIds[tuple_index(U) + 1]
      r   == allocate(St, id)
      cel == r.ret
      s1  == [r.st EXCEPT !.mem = counter_ctor(@, cel, 1, id, DriverAddr)]
  IN  /\ FirstFree(dst)
      /\ r.fromFree \/ (throws /\ fresh) \/ Cardinality(born) < MaxCells
      /\ r.created => NumBlocks < MaxBlocks
      /\ IF throws
         THEN /\ SetSt(deallocate(s1, cel, id))
              /\ lastOp' = [op |-> "createThrew", src |-> 0, dst |-> 0]
              /\ UNCHANGED <<handles, born, life>>
         ELSE /\ SetSt(s1)
              /\ handles' = [handles EXCEPT ![dst] = [T |-> U, Data |-> cel]]
              /\ born' = born \cup {cel}
              /\ life' = Write(life, cel, NewLife)
              /\ lastOp' = NoOp
      /\ UNCHANGED <<extVars, callerVars, factoryIds, sgl, assertFailed>>

\* refc<T> dst(src): copy construction from a null handle or a cell's handle
Copy(src, dst) ==
  LET d == handles[src].Data
      r == refc_copy(mem, d)
  IN  /\ handles[src] # NoHandle /\ FirstFree(dst)
      /\ d \notin {EmptyKey, TombstoneKey}
      /\ d # 0 => mem[CtrAt(d)] < MaxCount
      /\ mem' = r.mem
      /\ handles' = [handles EXCEPT ![dst] = handles[src]]
      /\ assertFailed' = (assertFailed \/ ~r.assertOk)
      /\ lastOp' = NoOp
      /\ UNCHANGED <<extVars, typeInfos, configs, blocks, brk, callerVars, factoryIds,
                     born, life, sgl>>

\* refc<T> dst(std::move(src)): src stays behind in the nullptr state
Move(src, dst) ==
  /\ handles[src] # NoHandle /\ FirstFree(dst)
  /\ handles' = [handles EXCEPT ![dst] = handles[src], ![src].Data = 0]
  /\ lastOp' = NoOp
  /\ UNCHANGED <<extVars, driverVars, callerVars, factoryIds, born, life, sgl,
                 assertFailed>>

\* the handle in slot goes out of scope
Drop(slot) ==
  LET r == refc_dtor(St, life, handles[slot].Data)
  IN  /\ handles[slot] # NoHandle
      /\ SetSt(r.st)
      /\ life' = r.life
      /\ handles' = [handles EXCEPT ![slot] = NoHandle]
      /\ lastOp' = IF handles[slot].Data \in {EmptyKey, TombstoneKey}
                   THEN [op |-> "dropKey", src |-> slot, dst |-> 0] ELSE NoOp
      /\ UNCHANGED <<extVars, callerVars, factoryIds, born, sgl, assertFailed>>

\* dst = src.get()->refc_from_this(), src a handle of a live cell
FromThis(src, dst) ==
  LET T == handles[src].T
      d == refc_from_this(get(handles[src].Data, T), T)
  IN  /\ handles[src] # NoHandle /\ FirstFree(dst)
      /\ EnablesRefcFromThis(T)
      /\ handles[src].Data \notin {0, EmptyKey, TombstoneKey}
      /\ mem[CtrAt(handles[src].Data)] < MaxCount
      /\ mem' = refc_increase(mem, d)
      /\ handles' = [handles EXCEPT ![dst] = [T |-> T, Data |-> d]]
      /\ lastOp' = [op |-> "fromThis", src |-> src, dst |-> dst]
      /\ UNCHANGED <<extVars, typeInfos, configs, blocks, brk, callerVars, factoryIds,
                     born, life, sgl, assertFailed>>

\* refc<int> dst(static_int): a view of the singleton
SingletonView(dst) ==
  /\ sgl = "alive" /\ FirstFree(dst)
  /\ mem[CtrAt(SingletonAddr)] < MaxCount
  /\ mem' = refc_increase(mem, SingletonAddr)
  /\ handles' = [handles EXCEPT ![dst] = [T |-> "int", Data |-> SingletonAddr]]
  /\ lastOp' = NoOp
  /\ UNCHANGED <<extVars, typeInfos, configs, blocks, brk, callerVars, factoryIds,
                 born, life, sgl, assertFailed>>

\* refc<int> dst(nullptr), refc<int>::getEmptyKey(), refc<int>::getTombstoneKey()
MakeKey(dst, Data) ==
  /\ FirstFree(dst)
  /\ handles' = [handles EXCEPT ![dst] = [T |-> "int", Data |-> Data]]
  /\ lastOp' = NoOp
  /\ UNCHANGED <<extVars, driverVars, callerVars, factoryIds, born, life, sgl,
                 assertFailed>>

\* the static storage of the singleton is reclaimed: ~singleton() is the
\* implicit destructor, which destroys the counter and the raw storage
SingletonReclaim ==
  /\ sgl = "alive"
  /\ HandlesOf(SingletonAddr) = {}
  /\ sgl' = "reclaimed"
  /\ lastOp' = NoOp
  /\ UNCHANGED <<extVars, driverVars, callerVars, factoryIds, handles, born, life,
                 assertFailed>>

NextRefc ==
  \/ \E U \in CreateTypes, dst \in Slots, throws \in BOOLEAN :
       Create(U, dst, throws, FALSE)
  \/ \E src \in Slots, dst \in Slots : Copy(src, dst)
  \/ \E src \in Slots, dst \in Slots : Move(src, dst)
  \/ \E slot \in Slots : Drop(slot)
  \/ \E src \in Slots, dst \in Slots : FromThis(src, dst)
  \/ \E dst \in Slots : SingletonView(dst)
  \/ \E dst \in Slots, Data \in {0, EmptyKey, TombstoneKey} : MakeKey(dst, Data)
  \/ SingletonReclaim

SpecRefc == InitRefc /\ [][NextRefc]_vars

\* the factory with payload constructors that throw at any call
NextThrow ==
  \/ \E U \in CreateTypes, dst \in Slots, throws \in BOOLEAN :
       Create(U, dst, throws, TRUE)
  \/ \E src \in Slots, dst \in Slots : Move(src, dst)
  \/ \E slot \in Slots : Drop(slot)

SpecThrow == InitRefc /\ [][NextThrow]_vars

-----------------------------------------------------------------------------
(* Claims about refc, the factory and the singleton *)

Sentinels == {0, EmptyKey, TombstoneKey}

\* C2: once every handle of a cell that factory.create constructed is
\* destroyed, the payload destructor has run exactly once for the cell and
\* the cell was passed to driver.deallocate exactly once.
C2_CounterDiscipline ==
  \A c \in born :
    HandlesOf(c) = {} => (life[c].dtor = 1 /\ life[c].dealloc = 1)

\* C7: bool(handle) is true exactly for the handles whose cell pointer is
\* neither null nor the empty key nor the tombstone key.
C7_BoolConversion ==
  \A i \in Slots :
    handles[i] # NoHandle =>
      (operator_bool(handles[i].Data) <=> handles[i].Data \notin Sentinels)

\* C8: right after dst = src.get()->refc_from_this() the two handles hold
\* the same cell pointer and the cell's counter is the number of handles
\* that refer to the cell.
C8_FromThisIdentity ==
  lastOp.op = "fromThis" =>
    LET d == handles[lastOp.src].Data
    IN  /\ handles[lastOp.dst].Data = d
        /\ mem[CtrAt(d)] = Cardinality(HandlesOf(d))

\* C9: whatever views of the singleton are made, copied, moved and dropped,
\* its cell is never passed to driver.deallocate nor put on a free list, and
\* its counter never falls below 1.
C9_SingletonKept ==
  /\ life[SingletonAddr].dealloc = 0
  /\ \A i \in DOMAIN configs : configs[i].freeList # SingletonAddr
  /\ mem[CtrAt(SingletonAddr)] >= 1

\* a view was made and copied, and both handles are gone again
C9_Witness ==
  /\ sgl = "alive"
  /\ mem[CtrAt(SingletonAddr)] = 3
  /\ HandlesOf(SingletonAddr) = {}

\* C10: the payload destructor of a singleton runs exactly once, when the
\* singleton's storage is reclaimed, and never while the singleton is alive.
C10_SingletonDtorOnce ==
  /\ sgl = "alive" => life[SingletonAddr].dtor = 0
  /\ sgl = "reclaimed" => life[SingletonAddr].dtor = 1

\* the sentinel pointers, and the cells that hold a constructed payload
Keys == {EmptyKey, TombstoneKey}

LiveCells == {c \in born : HandlesOf(c) # {}} \cup {SingletonAddr}

\* a handle of a sentinel comes into being or goes away in this step
KeyStep ==
  \E i \in Slots :
    \/ handles[i] = NoHandle /\ handles'[i] # NoHandle /\ handles'[i].Data \in Keys
    \/ handles[i] # NoHandle /\ handles[i].Data \in Keys /\ handles'[i] = NoHandle

\* C11: the empty key and the tombstone key are equal to themselves, unequal
\* to each other, to null and to every handle of a live cell, convert to
\* false, and a step that makes or destroys a handle of one writes no counter
\* and deallocates nothing.
C11_Sentinels ==
  /\ [](/\ \A k \in Keys :
             /\ operator_eq(k, k)
             /\ ~operator_eq(k, 0) /\ ~operator_eq(0, k)
             /\ ~operator_bool(k)
             /\ \A i \in Slots :
                  (handles[i] # NoHandle /\ handles[i].Data \in LiveCells)
                    => (~operator_eq(k, handles[i].Data)
                        /\ ~operator_eq(handles[i].Data, k))
         /\ ~operator_eq(EmptyKey, TombstoneKey)
         /\ ~operator_eq(TombstoneKey, EmptyKey))
  /\ [][KeyStep => (mem' = mem /\ configs' = configs /\ life' = life)]_vars

\* a sentinel handle was just destroyed while a handle of a live cell exists
C11_Witness ==
  /\ lastOp.op = "dropKey"
  /\ \E i \in Slots : handles[i] # NoHandle /\ handles[i].Data \in born

\* C12: h == nullptr is true exactly when h holds no cell: false for a handle
\* of a live cell and for both sentinels.
C12_NullEquality ==
  \A i \in Slots :
    handles[i] # NoHandle =>
      (operator_eq_null(handles[i].Data) <=> handles[i].Data = 0)

\* C13: copy-constructing a handle from a source that refers to a live cell
\* (a cell of the factory or the singleton seen through a view) adds exactly
\* one to the cell's counter, yields a handle equal to the source and breaks
\* no assertion of the constructor; a copy of a null or sentinel source
\* writes no counter.
C13_Copy ==
  [][\A src \in Slots, dst \in Slots :
       Copy(src, dst) =>
         LET d == handles[src].Data
         IN  /\ d \in LiveCells =>
                  /\ mem'[CtrAt(d)] = mem[CtrAt(d)] + 1
                  /\ operator_eq(handles'[dst].Data, d)
                  /\ ~assertFailed'
             /\ d \in Sentinels => mem' = mem]_vars

\* the cells on a free list from p on, following at most n links
RECURSIVE FreeCells(_, _, _)
FreeCells(m, p, n) ==
  IF p = 0 \/ n = 0 \/ p \notin DOMAIN m THEN <<>>
  ELSE <<p>> \o FreeCells(m, m[p], n - 1)

\* the free list of pool Id in the state s
FreeListOf(s, Id) ==
  FreeCells(s.mem, s.configs[Id + 1].freeList, Cardinality(DOMAIN s.mem))

\* C14: when the payload constructor throws inside create<U>(), the cell
\* that was allocated is on the free list of its ID exactly once when the
\* exception leaves create, no handle refers to it, no payload destructor ran
\* for it, and the next create for the ID takes that cell from the free list.
C14_CtorFailure ==
  [][\A U \in CreateTypes, dst \in Slots :
       Create(U, dst, TRUE, TRUE) =>
         LET id  == factoryIds[tuple_index(U) + 1]
             cel == allocate(St, id).ret
             fl  == FreeListOf(St', id)
         IN  /\ Cardinality({j \in DOMAIN fl : fl[j] = cel}) = 1
             /\ HandlesOf(cel)' = {}
             /\ life' = life
             /\ allocate(St', id).ret = cel
             /\ allocate(St', id).fromFree]_vars

\* a create threw although a handle of an earlier cell exists
C14_Witness ==
  /\ lastOp.op = "createThrew"
  /\ \E i \in Slots : handles[i] # NoHandle /\ handles[i].Data \in born
  /\ configs[1].freeList # 0

\* C15: when create<U>() fails because the payload constructor throws, the
\* driver is exactly as it was before the call: the ID table and, for every
\* pool, the slab list, the bump position and limit and the free list.
C15_ExactRollback ==
  [][\A U \in CreateTypes, dst \in Slots :
       Create(U, dst, TRUE, TRUE) =>
         /\ typeInfos' = typeInfos
         /\ configs' = configs
         /\ blocks' = blocks
         /\ \A Id \in Ids : FreeListOf(St', Id) = FreeListOf(St, Id)]_vars

\* C15 as amended: the failed create leaves the ID table and every other
\* pool as they were; if the cell came from the free list the pool is exactly
\* as before; if not, the pool keeps the cell as the only cell of its free
\* list and keeps the bump position one cell further, in the same slab or in
\* one new slab put in front of the slab list when the old one was used up.
C15_RollbackAmended ==
  [][\A U \in CreateTypes, dst \in Slots :
       Create(U, dst, TRUE, TRUE) =>
         LET id    == factoryIds[tuple_index(U) + 1]
             old   == configs[id + 1]
             new   == configs'[id + 1]
             osize == typeInfos[id + 1].objectSize
             cel   == DataAt(new.root, new.pos - osize)
         IN  /\ typeInfos' = typeInfos
             /\ DOMAIN configs' = DOMAIN configs
             /\ \A j \in DOMAIN configs : j # id + 1 => configs'[j] = configs[j]
             /\ IF old.freeList # 0
                THEN /\ configs' = configs
                     /\ blocks' = blocks
                     /\ mem'[old.freeList] = mem[old.freeList]
                     /\ FreeListOf(St', id) = FreeListOf(St, id)
                ELSE /\ new.freeList = cel
                     /\ mem'[cel] = 0
                     /\ \/ /\ new.root = old.root
                           /\ new.pos = old.pos + osize
                           /\ new.last = old.last
                           /\ blocks' = blocks
                        \/ /\ old.pos + osize > old.last
                           /\ new.root \notin DOMAIN blocks
                           /\ DOMAIN blocks' = DOMAIN blocks \cup {new.root}
                           /\ mem'[new.root] = old.root
                           /\ new.last - new.pos = (AllocationBlockSize - 1) * osize]_vars

\* a create threw for the first cell of a second slab
C15_Witness ==
  /\ lastOp.op = "createThrew"
  /\ NumBlocks = 2
  /\ configs[1].pos = typeInfos[1].objectSize
  /\ configs[1].freeList = DataAt(configs[1].root, 0)

-----------------------------------------------------------------------------
(* Move construction and destruction of the driver *)

\* ::operator delete[](Blck, std::align_val_t{ObjectAlignment}), put on record
Block_destroy(bl, Blck, ObjectAlignment) ==
  [bl EXCEPT ![Blck].released = @ + 1, ![Blck].relAlign = ObjectAlignment]

\* the while loop of the destructor stopping behind the first slab
destroyChainRoot(bl, m, blck, oalign) ==
  IF blck = 0 THEN bl ELSE Block_destroy(bl, blck, oalign)

\* the while loop of the destructor: blck, blck->next, ... until nullptr
RECURSIVE destroyChain(_, _, _, _)
destroyChain(bl, m, blck, oalign) ==
  IF blck = 0 THEN bl
  ELSE LET next == m[blck]
       IN  destroyChain(Block_destroy(bl, blck, oalign), m, next, oalign)

\* the for loop of the destructor over configs[i], configs[i+1], ...
RECURSIVE destroyConfigs(_, _, _)
destroyConfigs(s, bl, i) ==
  IF i >= Len(s.configs) THEN bl
  ELSE destroyConfigs(s, destroyChain(bl, s.mem, s.configs[i + 1].root,
                                      s.typeInfos[i + 1].objectAlignment), i + 1)

\* SubtypeAllocatorDriver::~SubtypeAllocatorDriver
driver_dtor(s) ==
  [s EXCEPT !.blocks = destroyConfigs(s, s.blocks, 0),
            !.typeInfos = <<>>,
            !.configs = <<>>]

\* the types whose cells the driver to be destroyed hands out: one pool is
\* shared by both when x16 is classified first
DtorTypes == {"p16", "x16"}

\* SubtypeAllocatorDriver B(std::move(A)): the vectors go to B, which is the
\* driver from here on, and A stays behind with empty vectors
MoveDriver ==
  /\ ~destroyed /\ movedFrom = <<>>
  /\ movedFrom' = <<[typeInfos |-> <<>>, configs |-> <<>>, dead |-> FALSE]>>
  /\ UNCHANGED <<driverVars, callerVars, refcVars, destroyed, pools, wrapperId,
                 pheld, capLog, wraps>>

\* the moved-from driver is destroyed
DestroyMovedFrom ==
  /\ movedFrom # <<>> /\ ~movedFrom[1].dead
  /\ blocks' = driver_dtor([St EXCEPT !.typeInfos = movedFrom[1].typeInfos,
                                      !.configs = movedFrom[1].configs]).blocks
  /\ movedFrom' = <<[movedFrom[1] EXCEPT !.dead = TRUE]>>
  /\ UNCHANGED <<typeInfos, configs, brk, mem, callerVars, refcVars, destroyed,
                 pools, wrapperId, pheld, capLog, wraps>>

\* the driver is destroyed
DestroyDriver ==
  /\ ~destroyed
  /\ SetSt(driver_dtor(St))
  /\ destroyed' = TRUE
  /\ UNCHANGED <<callerVars, refcVars, movedFrom, pools, wrapperId, pheld, capLog, wraps>>

\* the driver from its construction to its destruction
NextDtor ==
  \/ \E t \in DtorTypes : ~destroyed /\ GetId(t, FALSE)
  \/ \E Id \in Ids : ~destroyed /\ Allocate(Id, FALSE)
  \/ \E h \in held : ~destroyed /\ Deallocate(h, FALSE)
  \/ \E Id \in Ids : ~destroyed /\ Reserve(Id, MaxReserve, FALSE)
  \/ MoveDriver
  \/ DestroyMovedFrom
  \/ DestroyDriver

SpecDtor == Init /\ [][NextDtor]_vars

\* C16: no slab is released while the driver that owns it is alive - not
\* even by the destructor of the driver it was moved from - and once that
\* driver is destroyed every slab allocate or reserve created was released
\* exactly once, with the alignment it was created with.
C16_Teardown ==
  /\ ~destroyed => \A b \in DOMAIN blocks : blocks[b].released = 0
  /\ destroyed => \A b \in DOMAIN blocks :
                     /\ blocks[b].released = 1
                     /\ blocks[b].relAlign = blocks[b].align

\* a driver that was moved, with a pool of 16-aligned cells of two slabs, one
\* made by allocate and one by reserve, is destroyed, and so is its source
C16_Witness ==
  /\ destroyed
  /\ movedFrom # <<>> /\ movedFrom[1].dead
  /\ \E b1 \in DOMAIN blocks, b2 \in DOMAIN blocks :
       /\ blocks[b1].by = "allocate" /\ blocks[b2].by = "reserve"
       /\ blocks[b1].align = 16 /\ blocks[b2].align = 16
       /\ mem[b2] = b1

-----------------------------------------------------------------------------
(* mem::PoolAllocator<T, true, BlockSize> *)

\* the T of the pool: 16 bytes, 8-aligned
PoolT == "q16"

\* __STDCPP_DEFAULT_NEW_ALIGNMENT__: what a plain ::new[] aligns to
DefaultNewAlignment == 16

\* alignof(Block::DataField), sizeof(Block::value_type), sizeof(Block)
AlignofDataField(T) == Max(WordSize, AlignOf(T))

SizeofValue(T) == AlignUp(Max(WordSize, SizeOf(T)), AlignofDataField(T))

SizeofPoolBlock(T) == AlignUp(WordSize, AlignofDataField(T))

\* &p->data[i] of a PoolAllocator slab
PoolDataAt(T, p, i) == p + SizeofPoolBlock(T) + i * SizeofValue(T)

\* PoolAllocator::Block::create(nxt, n)
PoolBlock_create(s, T, nxt, n) ==
  LET numBytes == SizeofPoolBlock(T) + n * SizeofValue(T)
      ret      == SysAlloc(s, AlignofDataField(T))
  IN  [st  |-> [s EXCEPT !.blocks = Write(@, ret, [align |-> AlignofDataField(T),
                                                   bytes |-> numBytes,
                                                   cells |-> n,
                                                   by    |-> "pool",
                                                   released |-> 0,
                                                   relAlign |-> 0]),
                         !.brk    = ret + numBytes,
                         !.mem    = Write(@, ret, nxt)],
       ret |-> ret]

\* ::new std::aligned_storage_t<sizeof(T), alignof(T)>[n]: the array and
\* the heap after it (an array of no element has an address of its own too)
ArrayNew(s, T, n) ==
  LET align    == Max(DefaultNewAlignment, AlignOf(T))
      numBytes == Max(1, n * SizeOf(T))
      ret      == SysAlloc(s, align)
  IN  [st  |-> [s EXCEPT !.blocks = Write(@, ret, [align |-> align,
                                                   bytes |-> numBytes,
                                                   cells |-> n,
                                                   by    |-> "array",
                                                   released |-> 0,
                                                   relAlign |-> 0]),
                         !.brk = ret + numBytes],
       ret |-> ret]

\* ::delete[] reinterpret_cast<std::aligned_storage_t<...> *>(ptr)
ArrayDelete(s, T, ptr) ==
  [s EXCEPT !.blocks = Block_destroy(@, ptr, Max(DefaultNewAlignment, AlignOf(T)))]

\* the slabs among what the system allocator handed out
Slabs(bl) == [b \in {x \in DOMAIN bl : bl[x].by # "array"} |-> bl[b]]

NumSlabs == Cardinality(DOMAIN Slabs(blocks))

NumArrays == Cardinality(DOMAIN blocks) - NumSlabs

\* the test for an array request with n = 0 taken for a single cell
isArrayMany(n) == n > 1

\* if (n != 1): the request is for an array
isArray(n) == n # 1

\* the constructor with the bump index started at the first cell
PoolAllocator_ctorZero(reserved) ==
  [state |-> "alive", pool |-> 0, freeList |-> 0, currBlockSize |-> reserved,
   index |-> 0, cap |-> reserved, got |-> <<>>, freed |-> FALSE]

\* PoolAllocator(unsigned reserved)
PoolAllocator_ctor(reserved) ==
  [state |-> "alive", pool |-> 0, freeList |-> 0, currBlockSize |-> reserved,
   index |-> reserved, cap |-> reserved, got |-> <<>>, freed |-> FALSE]

\* PoolAllocator(const PoolAllocator &other)
PoolAllocator_copy(other) == PoolAllocator_ctor(other.currBlockSize)

\* the move constructor without other.mpool = nullptr
PoolAllocator_moveKeep(other) ==
  [new   |-> [other EXCEPT !.state = "alive"],
   other |-> [other EXCEPT !.state = "moved"]]

\* PoolAllocator(PoolAllocator &&other): the new pool and what is left of other
PoolAllocator_move(other) ==
  [new   |-> [other EXCEPT !.state = "alive"],
   other |-> [other EXCEPT !.pool = 0, !.freeList = 0, !.state = "moved"]]

\* PoolAllocator::allocate(n)
pool_allocate(s, T, P, n) ==
  IF isArray(n)
  THEN LET a == ArrayNew(s, T, n)
       IN  [st |-> a.st, P |-> P, ret |-> a.ret, created |-> FALSE]
  ELSE IF P.freeList # 0
  THEN [st |-> s, P |-> [P EXCEPT !.freeList = s.mem[P.freeList]],
        ret |-> P.freeList, created |-> FALSE]
  ELSE IF P.index = P.currBlockSize
  THEN LET c == IF P.pool # 0
                THEN PoolBlock_create(s, T, P.pool, PoolBlockSize)
                ELSE PoolBlock_create(s, T, P.pool, P.currBlockSize)
       IN  [st |-> c.st,
            P  |-> [P EXCEPT !.pool = c.ret, !.index = 1,
                             !.currBlockSize = IF P.pool # 0 THEN PoolBlockSize ELSE @],
            ret |-> PoolDataAt(T, c.ret, 0), created |-> TRUE]
  ELSE [st |-> s, P |-> [P EXCEPT !.index = @ + 1],
        ret |-> PoolDataAt(T, P.pool, P.index), created |-> FALSE]

\* PoolAllocator::deallocate(ptr, n)
pool_deallocate(s, T, P, ptr, n) ==
  IF isArray(n) THEN [st |-> ArrayDelete(s, T, ptr), P |-> P]
  ELSE [st |-> [s EXCEPT !.mem = Write(@, ptr, P.freeList)],
        P  |-> [P EXCEPT !.freeList = ptr]]

\* the slabs of a pool, from p on
RECURSIVE PoolSlabs(_, _)
PoolSlabs(m, p) == IF p = 0 THEN <<>> ELSE <<p>> \o PoolSlabs(m, m[p])

\* the for loop of ~PoolAllocator()
RECURSIVE poolDestroyChain(_, _, _, _)
poolDestroyChain(bl, m, p, align) ==
  IF p = 0 THEN bl
  ELSE LET nxt == m[p]
       IN  poolDestroyChain(Block_destroy(bl, p, align), m, nxt, align)

\* PoolAllocator::~PoolAllocator
pool_dtor(s, T, P) ==
  [st |-> [s EXCEPT !.blocks = poolDestroyChain(@, s.mem, P.pool, AlignofDataField(T))],
   P  |-> [P EXCEPT !.pool = 0, !.freeList = 0, !.state = "destroyed"]]

PoolIds == 1 .. MaxPools

NumPHeld == Cardinality({h \in pheld : h.of = "pool"})

NumWHeld == Cardinality({h \in pheld : h.of = "wrapper"})

\* PoolAllocator<T> pools[i](reserved)
PoolConstruct(i, reserved) ==
  /\ pools[i].state = "none"
  /\ \A j \in PoolIds : j < i => pools[j].state # "none"
  /\ pools' = [pools EXCEPT ![i] = PoolAllocator_ctor(reserved)]
  /\ UNCHANGED <<driverVars, callerVars, refcVars, destroyed, movedFrom,
                 wrapperId, pheld, capLog, wraps>>

\* PoolAllocator<T> pools[dst](pools[src])
PoolCopy(src, dst) ==
  /\ pools[src].state = "alive" /\ pools[dst].state = "none"
  /\ pools' = [pools EXCEPT ![dst] = PoolAllocator_copy(pools[src])]
  /\ UNCHANGED <<driverVars, callerVars, refcVars, destroyed, movedFrom,
                 wrapperId, pheld, capLog, wraps>>

\* PoolAllocator<T> pools[dst](std::move(pools[src]))
PoolMove(src, dst) ==
  LET r == PoolAllocator_move(pools[src])
  IN  /\ pools[src].state = "alive" /\ pools[dst].state = "none"
      /\ pools' = [pools EXCEPT ![dst] = r.new, ![src] = r.other]
      /\ UNCHANGED <<driverVars, callerVars, refcVars, destroyed, movedFrom,
                     wrapperId, pheld, capLog, wraps>>

\* p = pools[i].allocate(n)
PoolAllocate(i, n) ==
  LET r == pool_allocate(St, PoolT, pools[i], n)
  IN  /\ pools[i].state = "alive"
      /\ NumPHeld < MaxPHeld
      /\ r.created => NumSlabs < MaxBlocks
      /\ isArray(n) => NumArrays < MaxArrays
      /\ SetSt([r.st EXCEPT !.mem = Forget(@, r.ret)])
      /\ pools' = [pools EXCEPT ![i] = IF isArray(n) \/ r.P.freed THEN r.P
                                       ELSE [r.P EXCEPT !.got = Append(@, r.ret)]]
      /\ pheld' = pheld \cup {[ptr |-> r.ret, n |-> n, of |-> "pool"]}
      /\ UNCHANGED <<callerVars, refcVars, destroyed, movedFrom, wrapperId, capLog, wraps>>

\* pools[i].deallocate(h.ptr, h.n), of a cell of one of the slabs of pools[i]
\* or of an array
PoolDeallocate(i, h) ==
  LET r == pool_deallocate(St, PoolT, pools[i], h.ptr, h.n)
  IN  /\ pools[i].state = "alive" /\ h.of = "pool"
      /\ h.n = 1 => \E b \in Range(PoolSlabs(mem, pools[i].pool)) : InBlock(h.ptr, b)
      /\ SetSt(r.st)
      /\ pools' = [pools EXCEPT ![i] = IF isArray(h.n) THEN r.P
                                       ELSE [r.P EXCEPT !.freed = TRUE, !.got = <<>>]]
      /\ pheld' = pheld \ {h}
      /\ UNCHANGED <<callerVars, refcVars, destroyed, movedFrom, wrapperId, capLog, wraps>>

\* pools[i] is destroyed
PoolDestroy(i) ==
  LET r == pool_dtor(St, PoolT, pools[i])
  IN  /\ pools[i].state \in {"alive", "moved"}
      /\ SetSt(r.st)
      /\ pools' = [pools EXCEPT ![i] = r.P]
      /\ UNCHANGED <<callerVars, refcVars, destroyed, movedFrom, wrapperId, pheld,
                     capLog, wraps>>

-----------------------------------------------------------------------------
(* mem::SubtypeAllocator<T, AllocationBlockSize>, the wrapper over a driver *)

\* the T of the wrapper
WrapT == "x16"

\* SubtypeAllocator::allocate(N)
subtype_allocate(s, T, Id, N) ==
  IF N # 1
  THEN LET a == ArrayNew(s, T, N)
       IN  [st |-> a.st, Id |-> Id, ret |-> a.ret, created |-> FALSE,
            appended |-> FALSE]
  ELSE LET g  == getId(s, T)
           id == IF Id = ToSizeT(-1) THEN g.id ELSE Id
           s1 == IF Id = ToSizeT(-1) THEN g.st ELSE s
           r  == allocate(s1, id)
       IN  [st |-> r.st, Id |-> id, ret |-> r.ret, created |-> r.created,
            appended |-> Id = ToSizeT(-1) /\ g.appended]

\* SubtypeAllocator::deallocate(Ptr, N)
subtype_deallocate(s, T, Id, Ptr, N) ==
  IF N # 1 THEN [st |-> ArrayDelete(s, T, Ptr), Id |-> Id, appended |-> FALSE]
  ELSE LET g  == getId(s, T)
           id == IF Id = ToSizeT(-1) THEN g.id ELSE Id
           s1 == IF Id = ToSizeT(-1) THEN g.st ELSE s
       IN  [st |-> deallocate(s1, Ptr, id), Id |-> id,
            appended |-> Id = ToSizeT(-1) /\ g.appended]

\* p = wrapper.allocate(N)
WrapAllocate(N) ==
  LET r == subtype_allocate(St, WrapT, wrapperId, N)
  IN  /\ NumWHeld < MaxWHeld
      /\ r.created => NumSlabs < MaxBlocks
      /\ N # 1 => NumArrays < MaxArrays
      /\ SetSt([r.st EXCEPT !.mem = Forget(@, r.ret)])
      /\ wrapperId' = r.Id
      /\ resv' = IF r.appended THEN Append(resv, 0) ELSE resv
      /\ pheld' = pheld \cup {[ptr |-> r.ret, n |-> N, of |-> "wrapper"]}
      /\ UNCHANGED <<held, idOf, mon, refcVars, destroyed, movedFrom, pools, capLog, wraps>>

\* wrapper.deallocate(h.ptr, h.n) of what wrapper.allocate(h.n) returned
WrapDeallocate(h) ==
  LET r == subtype_deallocate(St, WrapT, wrapperId, h.ptr, h.n)
  IN  /\ h.of = "wrapper"
      /\ SetSt(r.st)
      /\ wrapperId' = r.Id
      /\ resv' = IF r.appended THEN Append(resv, 0) ELSE resv
      /\ pheld' = pheld \ {h}
      /\ UNCHANGED <<held, idOf, mon, refcVars, destroyed, movedFrom, pools, capLog, wraps>>

\* a PoolAllocator and a wrapper asked for cells and for arrays
NextFallback ==
  \/ PoolConstruct(1, MaxFirst)
  \/ \E n \in {0, 1, MaxN} : PoolAllocate(1, n)
  \/ \E h \in pheld : PoolDeallocate(1, h)
  \/ \E N \in {0, 1, MaxN} : WrapAllocate(N)
  \/ \E h \in pheld : WrapDeallocate(h)

SpecFallback == Init /\ [][NextFallback]_vars

\* every PoolAllocator with its slab list and free list is as it was
PoolFrame == pools' = pools /\ Slabs(blocks') = Slabs(blocks) /\ mem' = mem

\* the driver's pools, the ID table and the wrapper's ID slot are as they were
WrapFrame ==
  /\ typeInfos' = typeInfos /\ configs' = configs
  /\ Slabs(blocks') = Slabs(blocks) /\ mem' = mem
  /\ wrapperId' = wrapperId

\* C17: allocate(n) and deallocate(p, n) with n # 1, n = 0 included, leave
\* the slab list, bump index, slab capacity and free list of a PoolAllocator
\* unchanged, and on a SubtypeAllocator leave the driver's pools, the ID
\* table and the wrapper's ID slot unchanged.
C17_ArrayFallback ==
  [][/\ \A i \in PoolIds, n \in 0 .. MaxN :
          (n # 1 /\ PoolAllocate(i, n)) => PoolFrame
     /\ \A i \in PoolIds, h \in pheld :
          (h.n # 1 /\ PoolDeallocate(i, h)) => PoolFrame
     /\ \A N \in 0 .. MaxN : (N # 1 /\ WrapAllocate(N)) => WrapFrame
     /\ \A h \in pheld : (h.n # 1 /\ WrapDeallocate(h)) => WrapFrame]_vars

\* the wrapper handed out an array of no element after it resolved its ID
\* and took a cell back, beside a pool that has a slab and a free list
C17_Witness ==
  /\ \E h \in pheld : h.of = "wrapper" /\ h.n = 0
  /\ pools[1].freeList # 0
  /\ wrapperId # ToSizeT(-1)
  /\ configs[wrapperId + 1].freeList # 0

-----------------------------------------------------------------------------
(* PoolAllocator objects that are copied, moved and destroyed *)

NextPool ==
  \/ PoolConstruct(1, 1)
  \/ \E src \in PoolIds, dst \in PoolIds : PoolCopy(src, dst)
  \/ \E src \in PoolIds, dst \in PoolIds : PoolMove(src, dst)
  \/ \E i \in PoolIds : PoolAllocate(i, 1)
  \/ \E i \in PoolIds, h \in pheld : PoolDeallocate(i, h)
  \/ \E i \in PoolIds : PoolDestroy(i)

SpecPool == Init /\ [][NextPool]_vars

\* every PoolAllocator that was constructed is destroyed
AllPoolsGone ==
  /\ \A i \in PoolIds : pools[i].state \in {"none", "destroyed"}
  /\ \E i \in PoolIds : pools[i].state = "destroyed"

\* C18: a copy-constructed pool owns no slab, has an empty free list and the
\* source's current slab capacity, and the source is as it was; a
\* move-constructed pool has exactly the source's slabs, free list, bump
\* index and capacity, and the source is left with no slab and no free-list
\* cell; so no slab is released twice, and once all pools are destroyed
\* every slab was released exactly once.
C18_CopyMove ==
  /\ [][/\ \A src \in PoolIds, dst \in PoolIds :
             PoolCopy(src, dst) =>
               /\ pools'[dst].pool = 0
               /\ pools'[dst].freeList = 0
               /\ pools'[dst].currBlockSize = pools[src].currBlockSize
               /\ pools'[src] = pools[src]
               /\ blocks' = blocks /\ mem' = mem
        /\ \A src \in PoolIds, dst \in PoolIds :
             PoolMove(src, dst) =>
               /\ pools'[dst].pool = pools[src].pool
               /\ PoolSlabs(mem', pools'[dst].pool) = PoolSlabs(mem, pools[src].pool)
               /\ pools'[dst].freeList = pools[src].freeList
               /\ pools'[dst].index = pools[src].index
               /\ pools'[dst].currBlockSize = pools[src].currBlockSize
               /\ pools'[src].pool = 0
               /\ pools'[src].freeList = 0
               /\ blocks' = blocks /\ mem' = mem]_vars
  /\ [](/\ \A b \in DOMAIN blocks : blocks[b].released <= 1
        /\ AllPoolsGone => \A b \in DOMAIN blocks :
                              /\ blocks[b].released = 1
                              /\ blocks[b].relAlign = blocks[b].align)

\* a pool with two slabs and a free list was moved, the pool it was moved
\* into is destroyed and the source is not yet
C18_Witness ==
  /\ pools[1].state = "moved"
  /\ pools[2].state = "destroyed"
  /\ NumSlabs = 2
  /\ \A b \in DOMAIN blocks : blocks[b].released = 1

-----------------------------------------------------------------------------
(* PoolAllocators asked for single cells *)

NextGrow ==
  \/ \E i \in PoolIds, reserved \in 1 .. MaxFirst : PoolConstruct(i, reserved)
  \/ \E i \in PoolIds : PoolAllocate(i, 1)
  \/ \E i \in PoolIds, h \in pheld : PoolDeallocate(i, h)

SpecGrow == Init /\ [][NextGrow]_vars

Min(a, b) == IF a <= b THEN a ELSE b

\* the cell at p lies in the slab b, all of it
CellInSlab(p, b) ==
  p >= b + SizeofPoolBlock(PoolT) /\ p + SizeofValue(PoolT) <= b + blocks[b].bytes

\* C19: on a PoolAllocator constructed with first-slab capacity c >= 1 and
\* with no deallocation so far, the cells allocate(1) returned are pairwise
\* distinct, the first c of them lie in one slab of c cells, which is the
\* only slab until then, and the (c+1)-th lies in a second slab of BlockSize
\* cells.
C19_SlabGrowth ==
  \A i \in PoolIds :
    LET P  == pools[i]
        g  == P.got
        c  == P.cap
        sl == PoolSlabs(mem, P.pool)
    IN  (P.state = "alive" /\ ~P.freed /\ Len(g) >= 1) =>
          /\ \A j \in DOMAIN g, k \in DOMAIN g : j # k => g[j] # g[k]
          /\ Len(sl) >= 1
          /\ blocks[sl[Len(sl)]].cells = c
          /\ \A j \in 1 .. Min(c, Len(g)) : CellInSlab(g[j], sl[Len(sl)])
          /\ Len(g) <= c => Len(sl) = 1
          /\ Len(g) = c + 1 =>
               /\ Len(sl) = 2
               /\ blocks[sl[1]].cells = PoolBlockSize
               /\ CellInSlab(g[c + 1], sl[1])

\* a pool of first capacity two handed out three cells
C19_Witness ==
  /\ pools[1].cap = 2 /\ ~pools[1].freed
  /\ Len(pools[1].got) = 3
  /\ NumSlabs = 2

-----------------------------------------------------------------------------
(* RefcFactory::RefcFactory(initialCapacities) *)

\* the first for loop of the constructor:
\* initCapById[Ids[i]] += initialCapacities[i] for i, i+1, ...
RECURSIVE capsById(_, _, _, _)
capsById(initCapById, ids, initialCapacities, i) ==
  IF i >= Len(initCapById) THEN initCapById
  ELSE LET currId == ids[i + 1]
       IN  capsById([initCapById EXCEPT ![currId + 1] =
                                         ToSizeT(@ + initialCapacities[i + 1])],
                    ids, initialCapacities, i + 1)

\* a call Driver.reserve(args...): SubtypeAllocatorDriver has one reserve,
\* reserve(Id, NumNewObjects); a call that names one argument finds no
\* function to run, so the driver is as it was
reserve_call(s, args) ==
  IF Len(args) = 2 THEN reserve(s, args[1], args[2]).st ELSE s

\* the second for loop of the constructor:
\* if (initCapById[i]) Driver.reserve(initCapById[i]) for i, i+1, ...
RECURSIVE reserveHints(_, _, _, _, _)
reserveHints(s, calls, initCapById, numIds, i) ==
  IF i >= numIds THEN [st |-> s, calls |-> calls]
  ELSE IF initCapById[i + 1] # 0
  THEN LET args == <<initCapById[i + 1]>>
       IN  reserveHints(reserve_call(s, args), Append(calls, args), initCapById,
                        numIds, i + 1)
  ELSE reserveHints(s, calls, initCapById, numIds, i + 1)

\* RefcFactory::RefcFactory(const std::array<size_t, sizeof...(Ts)> &)
RefcFactory_ctor(s, initialCapacities) ==
  LET f           == initializeIds(s, 1, <<>>)
      initCapById == capsById([i \in 1 .. Len(Ts) |-> 0], f.ids, initialCapacities, 0)
      numIds      == getNumIds(f.st)
      r           == reserveHints(f.st, <<>>, initCapById, numIds, 0)
  IN  [st |-> r.st, Ids |-> f.ids, calls |-> r.calls]

\* mem::RefcFactory<AllocBlockSize, Ts...> Factory(initialCapacities)
ConstructCap(initialCapacities) ==
  LET r == RefcFactory_ctor(St, initialCapacities)
  IN  /\ factoryIds = <<>>
      /\ SetSt(r.st)
      /\ factoryIds' = r.Ids
      /\ resv' = [i \in 1 .. Len(r.st.typeInfos) |-> 0]
      /\ capLog' = [caps |-> initialCapacities, calls |-> r.calls]
      /\ UNCHANGED <<held, idOf, mon, handles, born, life, sgl, lastOp,
                     assertFailed, destroyed, movedFrom, pools, wrapperId, pheld,
                     wraps>>

\* a factory built from capacities, and handles created by it
NextCap ==
  \/ \E initialCapacities \in [1 .. Len(Ts) -> 0 .. MaxReserve] :
       ConstructCap(initialCapacities)
  \/ \E U \in CreateTypes, dst \in Slots :
       factoryIds # <<>> /\ Create(U, dst, FALSE, FALSE)
  \/ \E slot \in Slots : Drop(slot)

SpecCap == Init /\ [][NextCap]_vars

\* the sum of caps[i] over the types Ts[i] that resolved to the ID j
RECURSIVE TotalFor(_, _, _, _)
TotalFor(caps, ids, j, i) ==
  IF i > Len(caps) THEN 0
  ELSE (IF ids[i] = j THEN caps[i] ELSE 0) + TotalFor(caps, ids, j, i + 1)

\* C20: a factory constructed with capacities c_1 .. c_k has made, for every
\* ID j with a positive total, exactly one call reserve(j, total_j), total_j
\* being the sum of the c_i of the types resolved to j, and no other call;
\* so none of the first total_j creates for types of ID j creates a slab.
C20_CapacityHints ==
  capLog.caps # <<>> =>
    /\ \A j \in Ids :
         LET total == TotalFor(capLog.caps, factoryIds, j, 1)
         IN  total > 0 =>
               /\ Cardinality({k \in DOMAIN capLog.calls :
                                 capLog.calls[k] = <<j, total>>}) = 1
               /\ Cardinality(born) <= total =>
                    \A b \in DOMAIN blocks : blocks[b].by # "allocate"
    /\ \A k \in DOMAIN capLog.calls :
         /\ Len(capLog.calls[k]) = 2
         /\ capLog.calls[k][1] \in Ids
         /\ capLog.calls[k][2] = TotalFor(capLog.caps, factoryIds, capLog.calls[k][1], 1)

-----------------------------------------------------------------------------
(* SubtypeAllocator objects that are copied, rebound and compared *)

\* the types wrappers are made for: p12 and p16 have one normalized size and
\* one alignment, x16 has their normalized size and another alignment
WrapTypes == {"p12", "p16", "x16"}

\* address of a second driver, which is only pointed to
Driver2Addr == 16

Drivers == {DriverAddr, Driver2Addr}

WrapIds == 1 .. MaxWraps

\* SubtypeAllocator(Driver): SubtypeAllocatorBase(Driver), Id stays -1; by is
\* the constructor that made the wrapper and via the call of the wrapper
\* itself that resolved its ID, both kept for the record
SubtypeAllocator_ctor(T, Driver) ==
  [state |-> "alive", T |-> T, Driver |-> Driver, Id |-> ToSizeT(-1), by |-> "ctor",
   via |-> "none"]

\* SubtypeAllocator(const SubtypeAllocator &Other)
SubtypeAllocator_copy(Other) ==
  [state |-> "alive", T |-> Other.T, Driver |-> Other.Driver, Id |-> Other.Id,
   by |-> "copy", via |-> "none"]

\* the rebinding constructor taking the ID of the source whatever its type
SubtypeAllocator_rebindKeep(T, Other) ==
  [state |-> "alive", T |-> T, Driver |-> Other.Driver, Id |-> Other.Id,
   by |-> "rebind", via |-> "none"]

\* the rebinding constructor comparing the normalized sizes only
SubtypeAllocator_rebindSize(T, Other) ==
  [state |-> "alive", T |-> T, Driver |-> Other.Driver,
   Id |-> IF normalizedSize(Other.T) = normalizedSize(T)
          THEN Other.Id ELSE ToSizeT(-1),
   by |-> "rebind", via |-> "none"]

\* SubtypeAllocator(const SubtypeAllocator<U, AllocationBlockSize> &Other)
SubtypeAllocator_rebind(T, Other) ==
  [state |-> "alive", T |-> T, Driver |-> Other.Driver,
   Id |-> IF normalizedSize(Other.T) = normalizedSize(T)
             /\ AlignOf(Other.T) = AlignOf(T)
          THEN Other.Id ELSE ToSizeT(-1),
   by |-> "rebind", via |-> "none"]

\* operator== looking at the drivers only
wrapper_eqDriver(PMA1, PMA2) == PMA1.Driver = PMA2.Driver

\* operator==(const SubtypeAllocatorBase &, const SubtypeAllocatorBase &)
wrapper_eq(PMA1, PMA2) == PMA1.Driver = PMA2.Driver /\ PMA1.Id = PMA2.Id

\* operator!=(const SubtypeAllocatorBase &, const SubtypeAllocatorBase &)
wrapper_neq(PMA1, PMA2) == ~wrapper_eq(PMA1, PMA2)

\* a new wrapper takes the first slot that holds none
FirstFreeWrap(dst) ==
  /\ wraps[dst].state = "none"
  /\ \A i \in WrapIds : i < dst => wraps[i].state # "none"

\* the cells the caller holds of wrappers of these types
NumTHeld == Cardinality({h \in pheld : h.of \in WrapTypes})

\* SubtypeAllocator<T> wraps[dst](&driver)
WCtor(dst, T, Driver) ==
  /\ FirstFreeWrap(dst)
  /\ wraps' = [wraps EXCEPT ![dst] = SubtypeAllocator_ctor(T, Driver)]
  /\ UNCHANGED <<driverVars, callerVars, refcVars, destroyed, movedFrom, pools,
                 wrapperId, pheld, capLog>>

\* SubtypeAllocator<T> wraps[dst](wraps[src])
WCopy(src, dst) ==
  /\ wraps[src].state = "alive" /\ FirstFreeWrap(dst)
  /\ wraps' = [wraps EXCEPT ![dst] = SubtypeAllocator_copy(wraps[src])]
  /\ UNCHANGED <<driverVars, callerVars, refcVars, destroyed, movedFrom, pools,
                 wrapperId, pheld, capLog>>

\* SubtypeAllocator<T> wraps[dst](wraps[src]), wraps[src] a wrapper of another type
WRebind(src, dst, T) ==
  /\ wraps[src].state = "alive" /\ FirstFreeWrap(dst)
  /\ T # wraps[src].T
  /\ wraps' = [wraps EXCEPT ![dst] = SubtypeAllocator_rebind(T, wraps[src])]
  /\ UNCHANGED <<driverVars, callerVars, refcVars, destroyed, movedFrom, pools,
                 wrapperId, pheld, capLog>>

\* p = wraps[i].allocate(1), wraps[i] a wrapper over the driver
WAllocate(i) ==
  LET W == wraps[i]
      r == subtype_allocate(St, W.T, W.Id, 1)
  IN  /\ W.state = "alive" /\ W.Driver = DriverAddr
      /\ NumTHeld < MaxWHeld
      /\ r.created => NumSlabs < MaxBlocks
      /\ SetSt([r.st EXCEPT !.mem = Forget(@, r.ret)])
      /\ wraps' = [wraps EXCEPT ![i].Id = r.Id,
                                ![i].via = IF W.Id = InvalidId THEN "allocate" ELSE @]
      /\ resv' = IF r.appended THEN Append(resv, 0) ELSE resv
      /\ pheld' = pheld \cup {[ptr |-> r.ret, n |-> 1, of |-> W.T]}
      /\ UNCHANGED <<held, idOf, mon, refcVars, destroyed, movedFrom, pools,
                     wrapperId, capLog>>

\* wraps[i].deallocate(h.ptr, 1) of a cell that a wrapper of the type of
\* wraps[i] allocated
WDeallocate(i, h) ==
  LET W == wraps[i]
      r == subtype_deallocate(St, W.T, W.Id, h.ptr, 1)
  IN  /\ W.state = "alive" /\ W.Driver = DriverAddr
      /\ h.of = W.T
      /\ SetSt(r.st)
      /\ wraps' = [wraps EXCEPT ![i].Id = r.Id,
                                ![i].via = IF W.Id = InvalidId THEN "deallocate" ELSE @]
      /\ resv' = IF r.appended THEN Append(resv, 0) ELSE resv
      /\ pheld' = pheld \ {h}
      /\ UNCHANGED <<held, idOf, mon, refcVars, destroyed, movedFrom, pools,
                     wrapperId, capLog>>

NextWrap ==
  \/ \E dst \in WrapIds, T \in WrapTypes, D \in Drivers : WCtor(dst, T, D)
  \/ \E src \in WrapIds, dst \in WrapIds : WCopy(src, dst)
  \/ \E src \in WrapIds, dst \in WrapIds, T \in WrapTypes : WRebind(src, dst, T)
  \/ \E i \in WrapIds : WAllocate(i)
  \/ \E i \in WrapIds, h \in pheld : WDeallocate(i, h)

SpecWrap == Init /\ [][NextWrap]_vars

\* C21: two wrappers compare equal exactly when they point to the same driver
\* and hold the same ID-slot value, whatever their types - so an unresolved
\* and a resolved wrapper of one driver are unequal - and != is the negation
\* of ==.
C21_WrapperEquality ==
  \A i \in WrapIds, j \in WrapIds :
    (wraps[i].state = "alive" /\ wraps[j].state = "alive") =>
      /\ wrapper_eq(wraps[i], wraps[j])
           <=> (wraps[i].Driver = wraps[j].Driver /\ wraps[i].Id = wraps[j].Id)
      /\ (wraps[i].Driver = wraps[j].Driver
          /\ wraps[i].Id = ToSizeT(-1) /\ wraps[j].Id # ToSizeT(-1))
           => ~wrapper_eq(wraps[i], wraps[j])
      /\ wrapper_neq(wraps[i], wraps[j]) <=> ~wrapper_eq(wraps[i], wraps[j])
      /\ wrapper_eq(wraps[i], wraps[j]) <=> wrapper_eq(wraps[j], wraps[i])

\* a wrapper that resolved its ID beside an unresolved wrapper of the driver
C21_Witness ==
  /\ wraps[1].state = "alive" /\ wraps[2].state = "alive"
  /\ wraps[1].Driver = wraps[2].Driver
  /\ wraps[1].Id # ToSizeT(-1) /\ wraps[2].Id = ToSizeT(-1)

\* C27: a wrapper for T made from a wrapper for another type U has the
\* source's driver; it has the source's ID-slot value when U and T have one
\* normalized size and one alignment, and the invalid ID otherwise; the
\* source and the driver are as they were; and a wrapper whose slot is
\* invalid holds what getId<T>() returns after its first allocate(1) or
\* deallocate(p, 1).
C27_Rebind ==
  [][/\ \A src \in WrapIds, dst \in WrapIds, T \in WrapTypes :
          WRebind(src, dst, T) =>
            /\ wraps'[dst].Driver = wraps[src].Driver
            /\ SameShape(wraps[src].T, T) => wraps'[dst].Id = wraps[src].Id
            /\ ~SameShape(wraps[src].T, T) => wraps'[dst].Id = InvalidId
            /\ wraps'[src] = wraps[src]
            /\ UNCHANGED driverVars
     /\ \A i \in WrapIds :
          (wraps[i].Id = InvalidId /\ WAllocate(i)) =>
            wraps'[i].Id = getId(St, wraps[i].T).id
     /\ \A i \in WrapIds, h \in pheld :
          (wraps[i].Id = InvalidId /\ WDeallocate(i, h)) =>
            wraps'[i].Id = getId(St, wraps[i].T).id]_vars

\* a wrapper for a 16-aligned type was made from a resolved wrapper for a
\* 4-aligned type of that size and has resolved its own ID since
C27_Witness ==
  /\ wraps[1].state = "alive" /\ wraps[1].T \in {"p12", "p16"}
  /\ wraps[1].Id # InvalidId
  /\ wraps[2].by = "rebind" /\ wraps[2].T = "x16"
  /\ wraps[2].Id \notin {InvalidId, wraps[1].Id}

-----------------------------------------------------------------------------
(* Further claims about the driver *)

\* the entries of the ID table a type fits in, as indices of the sequence
FitsOf(t) ==
  {i \in DOMAIN typeInfos :
     /\ typeInfos[i].objectSize = normalizedSize(t)
     /\ typeInfos[i].objectAlignment >= AlignOf(t)}

\* C22: when some entry of the ID table has the normalized size of T and an
\* alignment >= alignof(T), getId<T>() returns the index of the one of them
\* with the smallest alignment and changes nothing; when none has, it appends
\* the entry (normalizedSize(T), alignof(T)) with a pool of no slab, an empty
\* free list and pos = last = 0, returns the former number of entries and
\* leaves the entries, pools and heap that exist as they are.
C22_TightestFit ==
  \A t \in Types :
    LET r == getId(St, t)
    IN  IF FitsOf(t) # {}
        THEN /\ r.st = St
             /\ r.id + 1 \in FitsOf(t)
             /\ \A j \in FitsOf(t) \ {r.id + 1} :
                  typeInfos[j].objectAlignment > typeInfos[r.id + 1].objectAlignment
        ELSE /\ r.id = Len(typeInfos)
             /\ r.st.typeInfos =
                  typeInfos \o <<[objectSize |-> normalizedSize(t),
                                  objectAlignment |-> AlignOf(t)]>>
             /\ r.st.configs =
                  configs \o <<[root |-> 0, freeList |-> 0, pos |-> 0, last |-> 0]>>
             /\ r.st.blocks = blocks /\ r.st.mem = mem /\ r.st.brk = brk

\* the table holds three entries of one size, the 8-aligned type chose the
\* middle one and the table has an entry of another size
C22_Witness ==
  /\ Len(typeInfos) = 4
  /\ idOf["q16"] = 1
  /\ Cardinality(FitsOf("q16")) = 2
  /\ Cardinality(FitsOf("p16")) = 3
  /\ FitsOf("i32") # {}

\* the driver with the round-trip monitor switched on, and reserve calls for
\* one cell and for many
NextOrder ==
  \/ \E t \in AllocTypes : GetId(t, FALSE)
  \/ \E Id \in Ids : Allocate(Id, TRUE)
  \/ \E h \in held : Deallocate(h, TRUE)
  \/ \E Id \in Ids, n \in {1, MaxReserve} : Reserve(Id, n, FALSE)

SpecOrder == Init /\ [][NextOrder]_vars

\* the current slab of the pool has a cell that was never issued
HasUnissued(Id) ==
  /\ configs[Id + 1].root # 0
  /\ configs[Id + 1].pos + typeInfos[Id + 1].objectSize <= configs[Id + 1].last

\* C23: allocate(id) returns the head of the free list and leaves the bump
\* position and the slabs alone whenever the free list is not empty;
\* otherwise it returns the next unissued cell of the current slab when there
\* is one; only otherwise it creates a slab: one, of AllocationBlockSize
\* cells, linked in front of the slabs the pool had, and returns its first
\* cell.
C23_AllocOrder ==
  [][\A Id \in Ids :
       (held' # held /\ Allocate(Id, TRUE)) =>
         LET old   == configs[Id + 1]
             new   == configs'[Id + 1]
             osize == typeInfos[Id + 1].objectSize
             got   == held' \ held
         IN  /\ \A j \in DOMAIN configs : j # Id + 1 => configs'[j] = configs[j]
             /\ IF old.freeList # 0
                THEN /\ got = {[ptr |-> old.freeList, id |-> Id]}
                     /\ new.freeList = mem[old.freeList]
                     /\ new.pos = old.pos /\ new.last = old.last
                     /\ new.root = old.root
                     /\ blocks' = blocks
                ELSE IF HasUnissued(Id)
                THEN /\ got = {[ptr |-> DataAt(old.root, old.pos), id |-> Id]}
                     /\ new = [old EXCEPT !.pos = old.pos + osize]
                     /\ blocks' = blocks
                ELSE /\ new.root \notin DOMAIN blocks
                     /\ DOMAIN blocks' = DOMAIN blocks \cup {new.root}
                     /\ \A b \in DOMAIN blocks : blocks'[b] = blocks[b]
                     /\ blocks'[new.root].cells = AllocationBlockSize
                     /\ blocks'[new.root].by = "allocate"
                     /\ mem'[new.root] = old.root
                     /\ got = {[ptr |-> DataAt(new.root, new.pos - osize), id |-> Id]}
                     /\ new.last - new.pos = (AllocationBlockSize - 1) * osize
                     /\ new.freeList = 0]_vars

\* a freed cell was just reissued although the current slab, which allocate
\* created in front of an older slab, has a cell never issued, and the other
\* cell the caller holds is the first cell of that slab
C23_Witness ==
  /\ mon.stage = "done" /\ mon.again = mon.freed
  /\ HasUnissued(mon.id)
  /\ blocks[configs[mon.id + 1].root].by = "allocate"
  /\ mem[configs[mon.id + 1].root] # 0
  /\ \E h \in held :
       /\ h.id = mon.id
       /\ h.ptr = DataAt(configs[mon.id + 1].root,
                         configs[mon.id + 1].pos - typeInfos[mon.id + 1].objectSize)

\* the driver with a caller that reserves at any time
NextHand ==
  \/ \E t \in AllocTypes : GetId(t, FALSE)
  \/ \E Id \in Ids : Allocate(Id, FALSE)
  \/ \E h \in held : Deallocate(h, FALSE)
  \/ \E Id \in Ids, n \in 0 .. MaxReserve : Reserve(Id, n, FALSE)

SpecHand == Init /\ [][NextHand]_vars

\* the cells the next k calls of allocate(Id) return, from the state s on
RECURSIVE AllocSeq(_, _, _)
AllocSeq(s, Id, k) ==
  IF k = 0 THEN <<>>
  ELSE LET a == allocate(s, Id)
       IN  <<a.ret>> \o AllocSeq(a.st, Id, k - 1)

\* the cells of the current slab never issued, lowest address first
TailCells(Id) ==
  LET c     == configs[Id + 1]
      osize == typeInfos[Id + 1].objectSize
  IN  [k \in 1 .. ((c.last - c.pos) \div osize) |->
         DataAt(c.root, c.pos + (k - 1) * osize)]

\* C24: reserve(id, n) called while the current slab has r cells never
\* issued, 1 <= r <= n, puts these r cells in front of the free list, lowest
\* address first, creates exactly one slab, of n - r cells, which becomes the
\* bump slab in front of the others, and the next allocations return the r
\* cells lowest address first and then the cells that were on the free list;
\* with r > n or n = 0 reserve changes nothing.
C24_ReserveHandOver ==
  [][\A Id \in Ids, n \in 0 .. MaxReserve :
       (held' = held /\ typeInfos' = typeInfos /\ Reserve(Id, n, FALSE)) =>
         LET old   == configs[Id + 1]
             new   == configs'[Id + 1]
             osize == typeInfos[Id + 1].objectSize
             tail  == TailCells(Id)
             r     == Len(tail)
             oldFL == FreeListOf(St, Id)
         IN  /\ (n = 0 \/ r > n) => UNCHANGED driverVars
             /\ (1 <= r /\ r <= n) =>
                  /\ FreeListOf(St', Id) = tail \o oldFL
                  /\ new.root \notin DOMAIN blocks
                  /\ DOMAIN blocks' = DOMAIN blocks \cup {new.root}
                  /\ \A b \in DOMAIN blocks : blocks'[b] = blocks[b]
                  /\ blocks'[new.root].cells = n - r
                  /\ mem'[new.root] = old.root
                  /\ new.last - new.pos = (n - r) * osize
                  /\ AllocSeq(St', Id, r + Len(oldFL)) = tail \o oldFL
                  /\ \A j \in DOMAIN configs : j # Id + 1 => configs'[j] = configs[j]]_vars

\* reserve took over the last cell of a slab whose first cell was on the
\* free list, and made a slab of no cell
C24_Witness ==
  \E Id \in Ids :
    LET fl == FreeListOf(St, Id)
        rt == configs[Id + 1].root
    IN  /\ rt # 0 /\ blocks[rt].by = "reserve" /\ blocks[rt].cells = 0
        /\ mem[rt] # 0
        /\ Len(fl) = 2 /\ fl[1] > fl[2]
        /\ InBlock(fl[1], mem[rt]) /\ InBlock(fl[2], mem[rt])

\* the cells of the slab b of pool Id
SlabCells(Id, b) ==
  LET osize  == typeInfos[Id + 1].objectSize
      oalign == typeInfos[Id + 1].objectAlignment
      first  == Max(SizeofBlock, oalign) - SizeofBlock
  IN  {DataAt(b, first + k * osize) : k \in 0 .. (blocks[b].cells - 1)}

\* the cells of all slabs of pool Id
CellsOf(Id) ==
  UNION {SlabCells(Id, b) : b \in Range(PoolSlabs(mem, configs[Id + 1].root))}

\* in how many of the three conditions the cell c of pool Id is
Conditions(Id, c) ==
  LET cfg == configs[Id + 1]
      fl  == FreeListOf(St, Id)
  IN  Cardinality({h \in held : h.ptr = c})
      + Cardinality({j \in DOMAIN fl : fl[j] = c})
      + (IF c \in SlabCells(Id, cfg.root) /\ c >= DataAt(cfg.root, cfg.pos)
         THEN 1 ELSE 0)

\* C25: every cell of every slab of a pool is in exactly one of three
\* conditions: held by the caller, once on the free list of the pool, or
\* never issued, at or after the bump position of the pool's head slab; what
\* the caller holds and what is on a free list are cells of the pool's slabs,
\* and no slab belongs to two pools.
C25_CellPartition ==
  /\ \A Id \in Ids :
       /\ \A c \in CellsOf(Id) : Conditions(Id, c) = 1
       /\ \A h \in held : h.id = Id => h.ptr \in CellsOf(Id)
       /\ Range(FreeListOf(St, Id)) \subseteq CellsOf(Id)
  /\ \A Id1 \in Ids, Id2 \in Ids :
       Id1 # Id2 => CellsOf(Id1) \cap CellsOf(Id2) = {}
  /\ \A b \in DOMAIN blocks :
       \E Id \in Ids : b \in Range(PoolSlabs(mem, configs[Id + 1].root))

\* a pool of two slabs with a cell held, a cell of the older slab on the
\* free list and a cell never issued
C25_Witness ==
  \E Id \in Ids :
    /\ Len(PoolSlabs(mem, configs[Id + 1].root)) = 2
    /\ HasUnissued(Id)
    /\ Len(FreeListOf(St, Id)) = 1
    /\ FreeListOf(St, Id)[1] \notin SlabCells(Id, configs[Id + 1].root)
    /\ \E h \in held : h.id = Id

\* the cells that allocate returned or reserve put on a free list: what the
\* caller holds of pool Id and what is on the free list of Id
IssuedCells(Id) ==
  {h.ptr : h \in {x \in held : x.id = Id}} \cup Range(FreeListOf(St, Id))

\* the osize bytes at c lie in the cell region of the slab b
InCellRegion(c, osize, oalign, b) ==
  LET first == b + Max(SizeofBlock, oalign)
      end   == first + blocks[b].cells * Max(osize, oalign)
  IN  /\ first <= c
      /\ c + osize <= end
      /\ end <= b + blocks[b].bytes

-----------------------------------------------------------------------------
(* PoolAllocators constructed with any first capacity *)

NextIndex ==
  \/ \E i \in PoolIds, reserved \in 0 .. (PoolBlockSize + 1) :
       PoolConstruct(i, reserved)
  \/ \E i \in PoolIds : PoolAllocate(i, 1)
  \/ \E i \in PoolIds, h \in pheld : PoolDeallocate(i, h)

SpecIndex == Init /\ [][NextIndex]_vars

\* C26: whatever first capacity a PoolAllocator was constructed with, 0 and
\* values above BlockSize included, and whatever allocate(1) and
\* deallocate(p, 1) calls followed, its bump index is at most the capacity
\* of its current slab.
C26_IndexBound ==
  \A i \in PoolIds :
    pools[i].state = "alive" => pools[i].index <= pools[i].currBlockSize

-----------------------------------------------------------------------------
(* Further claims about refc and the factory *)

\* C28: the counter of each cell the factory created and a handle refers to
\* is the number of handles that refer to it, the counter of the singleton
\* is one plus the number of its views, and a move changes no counter.
C28_CounterIsHandleCount ==
  /\ [](/\ \A c \in born :
             HandlesOf(c) # {} => mem[CtrAt(c)] = Cardinality(HandlesOf(c))
        /\ sgl = "alive" =>
             mem[CtrAt(SingletonAddr)] = 1 + Cardinality(HandlesOf(SingletonAddr)))
  /\ [][\A src \in Slots, dst \in Slots : Move(src, dst) => mem' = mem]_vars

\* the cells on the free lists of the driver
FreeNow == UNION {Range(FreeListOf(St, Id)) : Id \in Ids}

\* C29: while a handle refers to a cell the factory created, the cell is on
\* no free list, the destructor of its payload has not run and the cell was
\* not handed to deallocate, and a create never returns a cell that a handle
\* refers to.
C29_NoUseAfterFree ==
  /\ [](\A c \in born :
          HandlesOf(c) # {} =>
            /\ c \notin FreeNow
            /\ life[c].dtor = 0
            /\ life[c].dealloc = 0)
  /\ [][\A U \in CreateTypes, dst \in Slots :
          Create(U, dst, FALSE, FALSE) =>
            HandlesOf(allocate(St, factoryIds[tuple_index(U) + 1]).ret) = {}]_vars

\* a cell that was shared twice is left with one handle: two handles of it
\* were destroyed
C29_Witness ==
  \E c \in born :
    /\ Cardinality(HandlesOf(c)) = 1
    /\ mem[CtrAt(c)] = 3
    /\ c \notin FreeNow

-----------------------------------------------------------------------------
(* PoolAllocators that are used after they were moved from *)

\* pools[dst] = std::move(pools[src]): the destructor of pools[dst] runs and
\* pools[dst] is move-constructed anew in its place
PoolMoveAssign(src, dst) ==
  LET d == pool_dtor(St, PoolT, pools[dst])
      r == PoolAllocator_move(pools[src])
  IN  /\ src # dst
      /\ pools[src].state = "alive" /\ pools[dst].state = "alive"
      /\ SetSt(d.st)
      /\ pools' = [pools EXCEPT ![dst] = r.new, ![src] = r.other]
      /\ UNCHANGED <<callerVars, refcVars, destroyed, movedFrom, wrapperId, pheld,
                     capLog, wraps>>

\* what &mpool.pool->data[index] may be when mpool.pool is nullptr: the
\* address the sum gives, or a cell of whatever slab the heap holds
NullSlabCells(index) ==
  {PoolDataAt(PoolT, 0, index)}
    \cup {PoolDataAt(PoolT, b, 0) : b \in DOMAIN Slabs(blocks)}

\* p = pools[i].allocate(1), pools[i] a pool that was moved from
PoolReuse(i, p) ==
  LET P == pools[i]
      r == pool_allocate(St, PoolT, P, 1)
  IN  /\ P.state = "moved"
      /\ NumPHeld < MaxPHeld
      /\ r.created => NumSlabs < MaxBlocks
      /\ IF P.freeList = 0 /\ P.index # P.currBlockSize /\ P.pool = 0
         THEN p \in NullSlabCells(P.index)
         ELSE p = r.ret
      /\ SetSt([r.st EXCEPT !.mem = Forget(@, p)])
      /\ pools' = [pools EXCEPT ![i] = r.P]
      /\ pheld' = pheld \cup {[ptr |-> p, n |-> 1, of |-> "pool"]}
      /\ UNCHANGED <<callerVars, refcVars, destroyed, movedFrom, wrapperId, capLog,
                     wraps>>

\* every address a pool may hand out
PoolPtrs ==
  {PoolDataAt(PoolT, b, k) : b \in {0} \cup DOMAIN Slabs(blocks),
                             k \in 0 .. (Max(PoolBlockSize, MaxFirst) + MaxPHeld)}

NextMoved ==
  \/ \E i \in PoolIds, reserved \in 1 .. MaxFirst : PoolConstruct(i, reserved)
  \/ \E i \in PoolIds : PoolAllocate(i, 1)
  \/ \E src \in PoolIds, dst \in PoolIds : PoolMove(src, dst)
  \/ \E src \in PoolIds, dst \in PoolIds : PoolMoveAssign(src, dst)
  \/ \E i \in PoolIds, p \in PoolPtrs : PoolReuse(i, p)

SpecMoved == Init /\ [][NextMoved]_vars

\* C31: an allocate(1) on a PoolAllocator that was the source of a move
\* construction or a move assignment, in whatever state it was moved from,
\* returns a cell that lies inside a slab this pool owns.
C31_MovedFromUsable ==
  [][\A i \in PoolIds, p \in PoolPtrs :
       PoolReuse(i, p) =>
         \E b \in Range(PoolSlabs(mem', pools'[i].pool)) : CellInSlab(p, b)]_vars

-----------------------------------------------------------------------------
(* The IDs wrappers hold *)

\* C32: a wrapper for T over the driver whose ID slot is not invalid holds
\* the ID that getId<T>() returns, and getId<T>() adds no pool for it; and
\* deallocate(p, 1) through a wrapper for T, resolved or not, of a cell that a
\* wrapper for T allocated pushes the cell on the free list of the pool whose
\* slab holds it and touches no other pool.
C32_WrapperIdConsistent ==
  /\ [](\A i \in WrapIds :
          (wraps[i].state = "alive" /\ wraps[i].Driver = DriverAddr
           /\ wraps[i].Id # InvalidId) =>
            /\ ~getId(St, wraps[i].T).appended
            /\ getId(St, wraps[i].T).id = wraps[i].Id)
  /\ [][\A i \in WrapIds, h \in pheld :
          WDeallocate(i, h) =>
            \E Id \in 0 .. (Len(configs) - 1) :
              /\ h.ptr \in CellsOf(Id)
              /\ wraps'[i].Id = Id
              /\ configs' = [configs EXCEPT ![Id + 1].freeList = h.ptr]
              /\ mem' = Write(mem, h.ptr, configs[Id + 1].freeList)
              /\ typeInfos' = typeInfos]_vars

\* a wrapper resolved its ID by allocating a cell, and a copy of it that was
\* made before resolved its own by deallocating that cell, which is on the free
\* list of the pool both name
C32_Witness ==
  /\ wraps[1].via = "allocate"
  /\ wraps[2].by = "copy" /\ wraps[2].via = "deallocate"
  /\ wraps[1].T = wraps[2].T /\ wraps[1].Id = wraps[2].Id
  /\ pheld = {}
  /\ configs[wraps[2].Id + 1].freeList \in CellsOf(wraps[2].Id)

====
